---- MODULE Spec2Model ----
(***************************************************************************)
(* SoundCloudClone: the relational schema (interacciones, canciones,       *)
(* playlists), the interaction toggle endpoint the clients call, the       *)
(* AudioCard and PlaylistView clients of that endpoint, the AuthService    *)
(* calls that refresh the access token and log out, the creation,          *)
(* visibility and ordering of playlists and songs, the song search, the    *)
(* authentication modal of UserMenu, and the user cache of Library.        *)
(*                                                                         *)
(* The Django server is not part of the sources; its endpoints are         *)
(* modelled from the specification (section 4.1) on top of the schema,     *)
(* which is part of the sources and decides every insert and delete.       *)
(* A table is the multiset of its rows without the surrogate id and the    *)
(* created_at columns.                                                     *)
(***************************************************************************)
EXTENDS Integers, FiniteSets, Sequences, Bags, TLC

VARIABLES
  canciones,       \* cancion_id -> [likes_count, reposts_count, reproducciones], the rows of canciones
  nextCancionId,   \* the SERIAL sequence of canciones.cancion_id
  playlists,       \* the playlist_id of the rows of playlists
  nextPlaylistId,  \* the SERIAL sequence of playlists.playlist_id
  interacciones,   \* bag of the rows of interacciones
  ultima,          \* the response to the last call a caller made to the API directly: [status, activo]
  vista,           \* the page the browser shows: "ninguna", "library" or "playlist"
  card,            \* the state of the AudioCard of song 1 in Library
  pv,              \* the state of PlaylistView: playlist.canciones[0], trackCounts, trackInteractions
  red,             \* bag of the toggle calls of the browser that are in flight
  ajeno,           \* history: another caller toggled a like or a repost of song 1 since the page loaded
  servidor,        \* the auth server: tokens emitted, valid access and refresh tokens, the profile
  almacen,         \* localStorage: access_token and refresh_token
  llamada,         \* the pending getProfile / updateProfile call of AuthService
  logoutPendiente, \* a logout() that refreshToken started without awaiting it
  contexto,        \* the state of AuthProvider: user, isAuthenticated, loading, error
  logoutUsuario,   \* the refresh token of a logout of AuthProvider that awaits the server, or NULL
  refrescoFallido, \* history: refreshToken has failed and the user has done nothing since
  sesion,          \* the user logged in at the browser that shows the upload dialogs, or NULL
  temas,           \* cancion_id -> [usuario_id], the owner column of the rows of canciones
  listas,          \* playlist_id -> [usuario_id, es_publica], the rows of playlists
  miembros,        \* the rows of playlist_canciones: [playlist_id, cancion_id, orden]
  creador,         \* history: <<tabla, id>> -> the user who was logged in where the row was created
  titulos,         \* the titulo column of canciones, in the order of cancion_id
  barra,           \* the state of SearchBar: searchTerm, searchResults, totalResults, showResults
  modal,           \* useAuthModal's isAuthModalOpen and authMode, and AuthModal's mode
  menu,            \* the state of UserMenu: showDropdown, showProfile
  envio,           \* the form of AuthModal whose submit awaits the server: "ninguno", "login", "register"
  ultimoAbrir,     \* history: the open function that was called last, if nothing happened since
  lib,             \* Library: montada (it is mounted), and its state tracks (their usuario_id), loading, error
  users,           \* the users state of Library: the user ids whose name is cached
  corridas,        \* bag of the runs of Library's loading effect that have not ended
  pedidos,         \* history: user id -> the requests of its name sent since Library was mounted
  sb,              \* SearchBar step by step: searchTerm, searchResults, totalResults, showResults, isLoading, error
  timers,          \* the timers of the browser that setTimeout has set and that have not run: [id, resta, args]
  timeout,         \* the variable timeout of the closure of debounce: the id of the timer it set last
  peticiones,      \* bag of the queries of the search requests of SearchBar that are in flight
  desde,           \* history: the ticks since the last call of debouncedSearch, up to the wait
  rafaga,          \* history: the calls of debouncedSearch less than the wait apart: how many, the last arguments
  ejecutadas,      \* history: the arguments performSearch ran with since the first call of rafaga
  emitida          \* history: the query performSearch ran with last, empty once the input is cleared

cliente == <<vista, card, pv, red, ajeno>>

auth == <<servidor, almacen, llamada, logoutPendiente, contexto, logoutUsuario,
          refrescoFallido>>

dbvars == <<canciones, nextCancionId, playlists, nextPlaylistId, interacciones>>

contenido == <<sesion, temas, listas, miembros, creador>>

busqueda == <<titulos, barra>>

acceso == <<modal, menu, envio, ultimoAbrir>>

biblioteca == <<lib, users, corridas, pedidos>>

buscador == <<sb, timers, timeout, peticiones, desde, rafaga, ejecutadas, emitida>>

otros == <<contenido, busqueda, acceso, biblioteca, buscador>>

----------------------------------------------------------------------------
(* Bounds of the model *)
MaxUsuarios == 2
MaxCanciones == 2
MaxFilas == 2
MaxEnVuelo == 2
MaxCuenta == 2
MaxTokens == 3
MaxLen == 2

(* SQL NULL; ids are SERIAL and start at 1 *)
NULL == 0

Usuarios == 1..MaxUsuarios            \* registered users (app_users rows)
UsuarioIds == {1, MaxUsuarios + 1}     \* ids a caller names as the user to follow: a user, and an id of no user
CancionIds == 1..MaxCanciones
PlaylistIds == {1}                     \* playlists carry no counter: one id exercises their constraint

Max(a, b) == IF a >= b THEN a ELSE b

----------------------------------------------------------------------------
(* Schema: src/unnamed/part_021 *)

(* A default that starts the like counter one too high *)
LikesCountDefaultUno == 0 + 1

LikesCountDefault == 0
RepostsCountDefault == 0
ReproduccionesDefault == 0

CheckTipo(row) == row.tipo \in {"like", "repost", "follow"}

(* fk_interacciones_cancion, fk_interacciones_playlist; usuario_id and
   usuario_objetivo_id carry no foreign key. A NULL reference satisfies a
   foreign key. *)
FkOk(db, row) ==
  /\ row.cancion_id # NULL => row.cancion_id \in DOMAIN db.canciones
  /\ row.playlist_id # NULL => row.playlist_id \in db.playlists

(* A variant of the UNIQUE constraints that treats NULLs as equal *)
UniqueOkNullsEqual(db, row) ==
  \A r \in BagToSet(db.interacciones) :
    /\ ~(r.usuario_id = row.usuario_id /\ r.cancion_id = row.cancion_id /\ r.tipo = row.tipo)
    /\ ~(r.usuario_id = row.usuario_id /\ r.playlist_id = row.playlist_id /\ r.tipo = row.tipo)
    /\ ~(r.usuario_id = row.usuario_id /\ r.usuario_objetivo_id = row.usuario_objetivo_id
         /\ r.tipo = row.tipo)

(* A variant of the UNIQUE constraints without unique_interaccion_cancion *)
UniqueOkSinCancion(db, row) ==
  \A r \in BagToSet(db.interacciones) :
    /\ ~(r.usuario_id = row.usuario_id /\ r.playlist_id = row.playlist_id
         /\ row.playlist_id # NULL /\ r.tipo = row.tipo)
    /\ ~(r.usuario_id = row.usuario_id /\ r.usuario_objetivo_id = row.usuario_objetivo_id
         /\ row.usuario_objetivo_id # NULL /\ r.tipo = row.tipo)

(* unique_interaccion_cancion, unique_interaccion_playlist,
   unique_interaccion_usuario: PostgreSQL holds two NULLs to be distinct, so a
   constraint binds only the rows whose column of it is set. *)
UniqueOk(db, row) ==
  \A r \in BagToSet(db.interacciones) :
    /\ ~(r.usuario_id = row.usuario_id /\ r.cancion_id = row.cancion_id
         /\ row.cancion_id # NULL /\ r.tipo = row.tipo)
    /\ ~(r.usuario_id = row.usuario_id /\ r.playlist_id = row.playlist_id
         /\ row.playlist_id # NULL /\ r.tipo = row.tipo)
    /\ ~(r.usuario_id = row.usuario_id /\ r.usuario_objetivo_id = row.usuario_objetivo_id
         /\ row.usuario_objetivo_id # NULL /\ r.tipo = row.tipo)

(* INSERT INTO interacciones is accepted when every constraint holds *)
InsertOk(db, row) ==
  /\ row.usuario_id # NULL
  /\ CheckTipo(row)
  /\ FkOk(db, row)
  /\ UniqueOk(db, row)

(* A foreign key that does nothing on delete *)
CascadeCancionSinFK(tabla, id) == tabla

(* ON DELETE CASCADE of fk_interacciones_cancion *)
CascadeCancion(tabla, id) ==
  LET quedan == {r \in BagToSet(tabla) : r.cancion_id # id}
  IN [r \in quedan |-> tabla[r]]

(* ON DELETE CASCADE of fk_interacciones_playlist *)
CascadePlaylist(tabla, id) ==
  LET quedan == {r \in BagToSet(tabla) : r.playlist_id # id}
  IN [r \in quedan |-> tabla[r]]

DB == [interacciones |-> interacciones, canciones |-> canciones, playlists |-> playlists]

----------------------------------------------------------------------------
(* The body of POST /contenido/interacciones/toggle/ as the clients build it *)

Params(t, c, p, o, u) ==
  [tipo |-> t, cancion_id |-> c, playlist_id |-> p, usuario_objetivo_id |-> o,
   usuario_id |-> u]

ParamsCancion == {Params(t, c, NULL, NULL, u) : t \in {"like", "repost"}, c \in CancionIds, u \in Usuarios}

ParamsPlaylist == {Params(t, NULL, p, NULL, u) : t \in {"like", "repost"}, p \in PlaylistIds, u \in Usuarios}

ParamsFollow == {Params("follow", NULL, NULL, o, u) : o \in UsuarioIds, u \in Usuarios}

(* Callers that name a song and a playlist in the same call *)
ToggleParamsDosObjetivos ==
  ParamsCancion \cup ParamsPlaylist \cup ParamsFollow
  \cup {Params("like", c, p, NULL, u) : c \in CancionIds, p \in PlaylistIds, u \in Usuarios}

(* toggleInteraction(params): tipo, the acting user and one target whose kind
   matches the tipo *)
ToggleParams == ParamsCancion \cup ParamsPlaylist \cup ParamsFollow

----------------------------------------------------------------------------
(* The toggle endpoint of the server (specification, section 4.1) *)

TargetExists(db, p) ==
  \/ p.cancion_id # NULL /\ p.cancion_id \in DOMAIN db.canciones
  \/ p.playlist_id # NULL /\ p.playlist_id \in db.playlists
  \/ p.usuario_objetivo_id # NULL /\ p.usuario_objetivo_id \in Usuarios

Fila(p) ==
  [usuario_id |-> p.usuario_id, cancion_id |-> p.cancion_id, playlist_id |-> p.playlist_id,
   usuario_objetivo_id |-> p.usuario_objetivo_id, tipo |-> p.tipo]

Existe(db, p) == BagIn(Fila(p), db.interacciones)

Contador(tipo) == IF tipo = "like" THEN "likes_count" ELSE "reposts_count"

(* A counter update that moves the three counters of the song *)
AjustarTodos(cs, p, d) ==
  IF p.cancion_id # NULL /\ p.cancion_id \in DOMAIN cs /\ p.tipo \in {"like", "repost"}
  THEN [cs EXCEPT ![p.cancion_id] = [campo \in DOMAIN @ |-> Max(0, @[campo] + d)]]
  ELSE cs

(* The denormalized counter of the target moved by d, floored at zero; only
   canciones carries counters *)
Ajustar(cs, p, d) ==
  IF p.cancion_id # NULL /\ p.cancion_id \in DOMAIN cs /\ p.tipo \in {"like", "repost"}
  THEN [cs EXCEPT ![p.cancion_id][Contador(p.tipo)] = Max(0, @ + d)]
  ELSE cs

SinFila(tabla, fila) == [r \in BagToSet(tabla) \ {fila} |-> tabla[r]]

Respuesta(s, a) == [status |-> s, activo |-> a]

(* A toggle that deletes the row and leaves the counter as it was *)
ToggleEstadoSinDecremento(db, p) ==
  IF ~TargetExists(db, p)
  THEN [db |-> db, resp |-> Respuesta(404, FALSE)]
  ELSE IF Existe(db, p)
  THEN [db |-> [db EXCEPT !.interacciones = SinFila(@, Fila(p))],
        resp |-> Respuesta(200, FALSE)]
  ELSE IF InsertOk(db, Fila(p))
  THEN [db |-> [db EXCEPT !.interacciones = @ (+) SetToBag({Fila(p)}),
                          !.canciones = Ajustar(@, p, 1)],
        resp |-> Respuesta(200, TRUE)]
  ELSE [db |-> db, resp |-> Respuesta(500, FALSE)]

(* A toggle that works on a stale read in which the row is absent: the insert
   of a row that exists is refused by the schema and nothing changes *)
ToggleEstadoLecturaVieja(db, p) ==
  IF ~TargetExists(db, p)
  THEN [db |-> db, resp |-> Respuesta(404, FALSE)]
  ELSE IF InsertOk(db, Fila(p))
  THEN [db |-> [db EXCEPT !.interacciones = @ (+) SetToBag({Fila(p)}),
                          !.canciones = Ajustar(@, p, 1)],
        resp |-> Respuesta(200, TRUE)]
  ELSE [db |-> db, resp |-> Respuesta(500, FALSE)]

(* One call, one transaction: the state after it and the response.
   404 when the target is missing; otherwise the row is deleted and the
   counter lowered, or inserted (under the constraints of the schema) and the
   counter raised; a rejected insert rolls the transaction back. *)
ToggleEstado(db, p) ==
  IF ~TargetExists(db, p)
  THEN [db |-> db, resp |-> Respuesta(404, FALSE)]
  ELSE IF Existe(db, p)
  THEN [db |-> [db EXCEPT !.interacciones = SinFila(@, Fila(p)),
                          !.canciones = Ajustar(@, p, -1)],
        resp |-> Respuesta(200, FALSE)]
  ELSE IF InsertOk(db, Fila(p))
  THEN [db |-> [db EXCEPT !.interacciones = @ (+) SetToBag({Fila(p)}),
                          !.canciones = Ajustar(@, p, 1)],
        resp |-> Respuesta(200, TRUE)]
  ELSE [db |-> db, resp |-> Respuesta(500, FALSE)]

(* The toggle applied to the tables; MaxFilas bounds the table in the model *)
ToggleDB(p) ==
  LET r == ToggleEstado(DB, p)
  IN /\ BagCardinality(r.db.interacciones) <= MaxFilas
     /\ interacciones' = r.db.interacciones
     /\ canciones' = r.db.canciones
     /\ UNCHANGED <<nextCancionId, playlists, nextPlaylistId>>

----------------------------------------------------------------------------
(* The API as any caller may use it *)

(* POST /contenido/canciones/ *)
CrearCancion ==
  /\ nextCancionId <= MaxCanciones
  /\ canciones' = canciones @@ (nextCancionId :>
        [likes_count |-> LikesCountDefault, reposts_count |-> RepostsCountDefault,
         reproducciones |-> ReproduccionesDefault])
  /\ nextCancionId' = nextCancionId + 1
  /\ UNCHANGED <<playlists, nextPlaylistId, interacciones, ultima>>

(* DELETE of a row of canciones *)
EliminarCancion(id) ==
  /\ id \in DOMAIN canciones
  /\ canciones' = [c \in DOMAIN canciones \ {id} |-> canciones[c]]
  /\ interacciones' = CascadeCancion(interacciones, id)
  /\ UNCHANGED <<nextCancionId, playlists, nextPlaylistId, ultima>>

(* POST /contenido/playlists/ *)
CrearPlaylist ==
  /\ nextPlaylistId \in PlaylistIds
  /\ playlists' = playlists \cup {nextPlaylistId}
  /\ nextPlaylistId' = nextPlaylistId + 1
  /\ UNCHANGED <<canciones, nextCancionId, interacciones, ultima>>

(* DELETE of a row of playlists *)
EliminarPlaylist(id) ==
  /\ id \in playlists
  /\ playlists' = playlists \ {id}
  /\ interacciones' = CascadePlaylist(interacciones, id)
  /\ UNCHANGED <<canciones, nextCancionId, nextPlaylistId, ultima>>

(* The play counts of the model: a song is played once at most *)
Reproducciones == {ReproduccionesDefault, ReproduccionesDefault + 1}

(* The play-count increment of a song *)
Reproducir(id) ==
  /\ id \in DOMAIN canciones
  /\ canciones[id].reproducciones + 1 \in Reproducciones
  /\ canciones' = [canciones EXCEPT ![id].reproducciones = @ + 1]
  /\ UNCHANGED <<nextCancionId, playlists, nextPlaylistId, interacciones, ultima>>

(* POST /contenido/interacciones/toggle/ *)
Toggle(p) ==
  /\ ToggleDB(p)
  /\ ultima' = ToggleEstado(DB, p).resp

(* POST /contenido/interacciones/: the row is inserted if the schema accepts it *)
CrearInteraccion(p) ==
  /\ BagCardinality(interacciones) < MaxFilas
  /\ IF InsertOk(DB, Fila(p))
     THEN /\ interacciones' = interacciones (+) SetToBag({Fila(p)})
          /\ ultima' = Respuesta(201, TRUE)
     ELSE /\ interacciones' = interacciones
          /\ ultima' = Respuesta(400, FALSE)
  /\ UNCHANGED <<canciones, nextCancionId, playlists, nextPlaylistId>>

----------------------------------------------------------------------------
(* The browser: Library with the AudioCard of song 1, or PlaylistView of
   playlist 1 whose first track is song 1. Every client acts as user 1. *)

UsuarioCliente == 1
CancionVista == 1

(* The other callers of the API: user 1 from another session and one more user *)
OtrosLlamadores == {UsuarioCliente, UsuarioCliente + 1}

(* a || b of JavaScript on numbers: 0, null and undefined are falsy *)
FalsyOr(a, b) == IF a # 0 THEN a ELSE b

Mensaje(o, t, e, r) == [origen |-> o, tipo |-> t, estado |-> e, resp |-> r]

Enviada(o, t) == Mensaje(o, t, "enviada", Respuesta(NULL, FALSE))

(* The params handleLike, handleRepost, handleTrackLike and handleTrackRepost pass *)
ParamsCliente(t) == Params(t, CancionVista, NULL, NULL, UsuarioCliente)

(* A count that is left as it is when the like is withdrawn *)
ContarSinBajar(prev, activo) == IF activo THEN prev + 1 ELSE prev

(* prev => activo ? prev + 1 : Math.max(0, prev - 1) *)
Contar(prev, activo) == IF activo THEN prev + 1 ELSE Max(0, prev - 1)

CampoCuenta(t) == IF t = "like" THEN "likes" ELSE "reposts"
CampoMarca(t) == IF t = "like" THEN "isLiked" ELSE "isReposted"
CampoMarcaPV(t) == IF t = "like" THEN "liked" ELSE "reposted"

(* Library.fetchTracks, then AudioCard mounts: useState(initialLikes || 0),
   getTrackInteractionStatus answers liked: false, reposted: false *)
MontarLibrary ==
  /\ vista = "ninguna"
  /\ CancionVista \in DOMAIN canciones
  /\ vista' = "library"
  /\ card' = [isLiked |-> FALSE, isReposted |-> FALSE,
              likes |-> FalsyOr(canciones[CancionVista].likes_count, 0),
              reposts |-> FalsyOr(canciones[CancionVista].reposts_count, 0),
              loading |-> FALSE]
  /\ UNCHANGED <<dbvars, ultima, pv, red, ajeno>>

(* Handlers that send a call whatever loading is *)
CardClickSinGuardia(t) ==
  /\ vista = "library"
  /\ BagCardinality(red) < MaxEnVuelo
  /\ card' = [card EXCEPT !.loading = TRUE]
  /\ red' = red (+) SetToBag({Enviada("card", t)})
  /\ UNCHANGED <<dbvars, ultima, vista, pv, ajeno>>

(* AudioCard.handleLike / handleRepost up to the await: a click while a call
   is pending returns at once *)
CardClick(t) ==
  /\ vista = "library"
  /\ IF card.loading
     THEN UNCHANGED <<card, red>>
     ELSE /\ BagCardinality(red) < MaxEnVuelo
          /\ card' = [card EXCEPT !.loading = TRUE]
          /\ red' = red (+) SetToBag({Enviada("card", t)})
  /\ UNCHANGED <<dbvars, ultima, vista, pv, ajeno>>

(* AudioCard.handleLike / handleRepost after the await: the response updates
   the flag and the count; axios throws on a status that is not 2xx; finally
   clears loading *)
CardRecibe(m) ==
  /\ vista = "library"
  /\ BagIn(m, red) /\ m.origen = "card" /\ m.estado = "respondida"
  /\ red' = red (-) SetToBag({m})
  /\ Contar(card[CampoCuenta(m.tipo)], m.resp.activo) <= MaxCuenta
  /\ IF m.resp.status = 200
     THEN card' = [card EXCEPT ![CampoMarca(m.tipo)] = m.resp.activo,
                               ![CampoCuenta(m.tipo)] = Contar(@, m.resp.activo),
                               !.loading = FALSE]
     ELSE card' = [card EXCEPT !.loading = FALSE]
  /\ UNCHANGED <<dbvars, ultima, vista, pv, ajeno>>

(* PlaylistView.fetchPlaylist: the playlist is kept as fetched, trackCounts
   start at likes_count || 0 and trackInteractions at false *)
MontarPlaylist ==
  /\ vista = "ninguna"
  /\ 1 \in playlists
  /\ CancionVista \in DOMAIN canciones
  /\ vista' = "playlist"
  /\ pv' = [track |-> [likes |-> canciones[CancionVista].likes_count,
                       reposts |-> canciones[CancionVista].reposts_count],
            trackCounts |-> [likes |-> FalsyOr(canciones[CancionVista].likes_count, 0),
                             reposts |-> FalsyOr(canciones[CancionVista].reposts_count, 0)],
            trackInteractions |-> [liked |-> FALSE, reposted |-> FALSE]]
  /\ UNCHANGED <<dbvars, ultima, card, red, ajeno>>

(* PlaylistView.handleTrackLike / handleTrackRepost up to the await: every
   click sends a call *)
PVClick(t) ==
  /\ vista = "playlist"
  /\ BagCardinality(red) < MaxEnVuelo
  /\ red' = red (+) SetToBag({Enviada("pv", t)})
  /\ UNCHANGED <<dbvars, ultima, vista, card, pv, ajeno>>

(* PlaylistView.handleTrackLike / handleTrackRepost after the await *)
PVRecibe(m) ==
  /\ vista = "playlist"
  /\ BagIn(m, red) /\ m.origen = "pv" /\ m.estado = "respondida"
  /\ red' = red (-) SetToBag({m})
  /\ Contar(pv.trackCounts[CampoCuenta(m.tipo)], m.resp.activo) <= MaxCuenta
  /\ IF m.resp.status = 200
     THEN pv' = [pv EXCEPT !.trackInteractions[CampoMarcaPV(m.tipo)] = m.resp.activo,
                           !.trackCounts[CampoCuenta(m.tipo)] = Contar(@, m.resp.activo)]
     ELSE pv' = pv
  /\ UNCHANGED <<dbvars, ultima, vista, card, ajeno>>

(* trackCounts[track.cancion_id]?.likes || track.likes_count *)
Mostrado(campo) == FalsyOr(pv.trackCounts[campo], pv.track[campo])

(* The server serves one of the calls in flight, in any order *)
Procesar(m) ==
  /\ BagIn(m, red) /\ m.estado = "enviada"
  /\ ToggleDB(ParamsCliente(m.tipo))
  /\ red' = (red (-) SetToBag({m}))
            (+) SetToBag({Mensaje(m.origen, m.tipo, "respondida",
                                  ToggleEstado(DB, ParamsCliente(m.tipo)).resp)})
  /\ UNCHANGED <<ultima, vista, card, pv, ajeno>>

(* Another caller of the API toggles a like or a repost of song 1 *)
OtroToggle(u, t) ==
  /\ ToggleDB(Params(t, CancionVista, NULL, NULL, u))
  /\ ajeno' = (ajeno \/ vista # "ninguna")
  /\ UNCHANGED <<ultima, vista, card, pv, red>>

----------------------------------------------------------------------------
(* AuthService (authService.js) and the token endpoints it calls. A login or
   a refresh emits the access and the refresh token of one number; the server
   is modelled from the README: access tokens expire, refresh tokens rotate
   at every use, and whether the used refresh token is blacklisted at once is
   a setting the sources do not show. *)

Tokens == 1..MaxTokens

SinLlamada == [fn |-> "ninguna", pc |-> "fin", token |-> NULL, intentos |-> 0,
               refrescos |-> 0, resultado |-> "ninguno"]

(* initialState of the auth context *)
initialState == [user |-> NULL, isAuthenticated |-> FALSE, loading |-> TRUE, error |-> NULL]

(* A reducer whose LOGOUT keeps the user and the error *)
authReducerLogoutParcial(state, type, payload) ==
  CASE type = "SET_LOADING" -> [state EXCEPT !.loading = payload]
    [] type = "SET_USER" -> [state EXCEPT !.user = payload, !.isAuthenticated = TRUE,
                                          !.loading = FALSE, !.error = NULL]
    [] type = "SET_ERROR" -> [state EXCEPT !.error = payload, !.loading = FALSE]
    [] type = "LOGOUT" -> [state EXCEPT !.isAuthenticated = FALSE, !.loading = FALSE]
    [] type = "CLEAR_ERROR" -> [state EXCEPT !.error = NULL]
    [] OTHER -> state

(* A reducer whose SET_ERROR ends the session *)
authReducerErrorCierra(state, type, payload) ==
  CASE type = "SET_LOADING" -> [state EXCEPT !.loading = payload]
    [] type = "SET_USER" -> [state EXCEPT !.user = payload, !.isAuthenticated = TRUE,
                                          !.loading = FALSE, !.error = NULL]
    [] type = "SET_ERROR" -> [state EXCEPT !.user = NULL, !.isAuthenticated = FALSE,
                                           !.error = payload, !.loading = FALSE]
    [] type = "LOGOUT" -> [state EXCEPT !.user = NULL, !.isAuthenticated = FALSE,
                                        !.loading = FALSE, !.error = NULL]
    [] type = "CLEAR_ERROR" -> [state EXCEPT !.error = NULL]
    [] OTHER -> state

(* authReducer(state, action) *)
authReducer(state, type, payload) ==
  CASE type = "SET_LOADING" -> [state EXCEPT !.loading = payload]
    [] type = "SET_USER" -> [state EXCEPT !.user = payload, !.isAuthenticated = TRUE,
                                          !.loading = FALSE, !.error = NULL]
    [] type = "SET_ERROR" -> [state EXCEPT !.error = payload, !.loading = FALSE]
    [] type = "LOGOUT" -> [state EXCEPT !.user = NULL, !.isAuthenticated = FALSE,
                                        !.loading = FALSE, !.error = NULL]
    [] type = "CLEAR_ERROR" -> [state EXCEPT !.error = NULL]
    [] OTHER -> state

(* The user object the server returns *)
Usuario == 1

SinTokens == [access_token |-> NULL, refresh_token |-> NULL]

InitAuth ==
  /\ servidor = [emitidos |-> 0, vigentes |-> {}, refrescos |-> {}, perfil |-> "original"]
  /\ almacen = SinTokens
  /\ llamada = SinLlamada
  /\ logoutPendiente = FALSE
  /\ contexto = initialState
  /\ logoutUsuario = NULL
  /\ refrescoFallido = FALSE

(* AuthProvider.login with good credentials: AuthService.login stores both
   tokens and SET_USER follows *)
Login ==
  /\ servidor.emitidos < MaxTokens
  /\ LET n == servidor.emitidos + 1
     IN /\ servidor' = [servidor EXCEPT !.emitidos = n, !.vigentes = @ \cup {n},
                                        !.refrescos = @ \cup {n}]
        /\ almacen' = [access_token |-> n, refresh_token |-> n]
  /\ contexto' = authReducer(authReducer(authReducer(contexto, "SET_LOADING", TRUE),
                                         "CLEAR_ERROR", NULL), "SET_USER", Usuario)
  /\ refrescoFallido' = FALSE
  /\ UNCHANGED <<llamada, logoutPendiente, logoutUsuario>>

(* The message of the Error AuthService.login throws, a non-null value *)
ErrorLogin == 2

(* The message of the Error AuthService.register throws, a non-null value *)
ErrorRegistro == 3

(* AuthProvider.login with credentials the server refuses: AuthService.login
   throws before it stores anything and SET_ERROR follows *)
LoginError ==
  /\ contexto' = authReducer(authReducer(authReducer(contexto, "SET_LOADING", TRUE),
                                         "CLEAR_ERROR", NULL), "SET_ERROR", ErrorLogin)
  /\ refrescoFallido' = FALSE
  /\ UNCHANGED <<servidor, almacen, llamada, logoutPendiente, logoutUsuario>>

(* AuthProvider.register with data the server refuses: AuthService.register
   throws before it stores anything and SET_ERROR follows *)
RegisterError ==
  /\ contexto' = authReducer(authReducer(authReducer(contexto, "SET_LOADING", TRUE),
                                         "CLEAR_ERROR", NULL), "SET_ERROR", ErrorRegistro)
  /\ refrescoFallido' = FALSE
  /\ UNCHANGED <<servidor, almacen, llamada, logoutPendiente, logoutUsuario>>

(* The server stops accepting an access token: its lifetime ends *)
Expirar(t) ==
  /\ t \in servidor.vigentes
  /\ servidor' = [servidor EXCEPT !.vigentes = @ \ {t}]
  /\ UNCHANGED <<almacen, llamada, logoutPendiente, contexto, logoutUsuario, refrescoFallido>>

(* The lifetime of a refresh token ends *)
ExpirarRefresh(t) ==
  /\ t \in servidor.refrescos
  /\ servidor' = [servidor EXCEPT !.refrescos = @ \ {t}]
  /\ UNCHANGED <<almacen, llamada, logoutPendiente, contexto, logoutUsuario, refrescoFallido>>

(* getProfile: the page loads, AuthProvider mounts with initialState and
   checkAuth calls getProfile() if an access token is stored, else dispatches
   SET_LOADING false. updateProfile: AuthProvider.updateProfile dispatches
   CLEAR_ERROR and calls updateProfile(userData), which throws 'No hay token de
   acceso' without an access token. Both up to the fetch. *)
Llamar(fn) ==
  /\ llamada.fn = "ninguna"
  /\ IF fn = "getProfile"
     THEN /\ ~logoutPendiente /\ logoutUsuario = NULL
          /\ IF almacen.access_token # NULL
             THEN /\ contexto' = initialState
                  /\ llamada' = [SinLlamada EXCEPT !.fn = fn, !.pc = "fetch",
                                                   !.token = almacen.access_token,
                                                   !.intentos = 1]
             ELSE /\ contexto' = authReducer(initialState, "SET_LOADING", FALSE)
                  /\ llamada' = llamada
     ELSE /\ contexto' = authReducer(contexto, "CLEAR_ERROR", NULL)
          /\ llamada' = IF almacen.access_token = NULL
                        THEN [SinLlamada EXCEPT !.fn = fn, !.resultado = "error"]
                        ELSE [SinLlamada EXCEPT !.fn = fn, !.pc = "fetch",
                                                !.token = almacen.access_token,
                                                !.intentos = 1]
  /\ refrescoFallido' = FALSE
  /\ UNCHANGED <<servidor, almacen, logoutPendiente, logoutUsuario>>

(* The status the server gives a call that bears an access token *)
EstadosPerfil(token) == (IF token \in servidor.vigentes THEN {200} ELSE {401}) \cup {500}

(* The response to the fetch of getProfile / updateProfile: 200 returns the
   data, 401 goes on to refreshToken, another status throws *)
RespuestaPerfil ==
  /\ llamada.pc = "fetch"
  /\ \E estado \in EstadosPerfil(llamada.token) :
       /\ llamada' = IF estado = 200 THEN [llamada EXCEPT !.pc = "fin", !.resultado = "ok"]
                     ELSE IF estado = 401 THEN [llamada EXCEPT !.pc = "refresh"]
                     ELSE [llamada EXCEPT !.pc = "fin", !.resultado = "error"]
       /\ servidor' = IF estado = 200 /\ llamada.fn = "updateProfile"
                      THEN [servidor EXCEPT !.perfil = "editado"]
                      ELSE servidor
  /\ UNCHANGED <<almacen, logoutPendiente, contexto, logoutUsuario, refrescoFallido>>

(* await this.refreshToken(); return this.getProfile(): without a refresh
   token refreshToken throws; when the server refuses the token it starts
   logout() and throws 'Sesión expirada'; otherwise it stores data.access only
   and the call runs again from the start with the new access token *)
RefreshToken ==
  /\ llamada.pc = "refresh"
  /\ IF almacen.refresh_token = NULL
     THEN /\ llamada' = [llamada EXCEPT !.pc = "fin", !.resultado = "error"]
          /\ UNCHANGED <<servidor, almacen, logoutPendiente>>
     ELSE IF almacen.refresh_token \notin servidor.refrescos
     THEN /\ llamada' = [llamada EXCEPT !.pc = "fin", !.resultado = "error"]
          /\ logoutPendiente' = TRUE
          /\ UNCHANGED <<servidor, almacen>>
     ELSE /\ servidor.emitidos < MaxTokens
          /\ LET n == servidor.emitidos + 1
             IN /\ \E invalida \in BOOLEAN :
                     servidor' = [servidor EXCEPT
                       !.emitidos = n, !.vigentes = @ \cup {n},
                       !.refrescos = (IF invalida THEN @ \ {almacen.refresh_token} ELSE @)
                                     \cup {n}]
                /\ almacen' = [almacen EXCEPT !.access_token = n]
                /\ llamada' = [llamada EXCEPT !.pc = "fetch", !.token = n,
                                              !.intentos = @ + 1, !.refrescos = @ + 1]
          /\ UNCHANGED logoutPendiente
  /\ refrescoFallido' = (refrescoFallido \/ llamada'.resultado = "error")
  /\ UNCHANGED <<contexto, logoutUsuario>>

(* AuthService.logout(): the refresh token goes to the blacklist of the
   server and both tokens leave localStorage *)
LogoutFondo ==
  /\ logoutPendiente
  /\ logoutPendiente' = FALSE
  /\ servidor' = [servidor EXCEPT !.refrescos = @ \ {almacen.refresh_token}]
  /\ almacen' = SinTokens
  /\ UNCHANGED <<llamada, contexto, logoutUsuario, refrescoFallido>>

(* AuthProvider.logout up to the fetch of AuthService.logout: without a
   refresh token nothing is sent, the tokens are removed and LOGOUT is
   dispatched at once *)
LogoutInicio ==
  /\ logoutUsuario = NULL
  /\ IF almacen.refresh_token = NULL
     THEN /\ almacen' = SinTokens
          /\ contexto' = authReducer(contexto, "LOGOUT", NULL)
          /\ UNCHANGED logoutUsuario
     ELSE /\ logoutUsuario' = almacen.refresh_token
          /\ UNCHANGED <<almacen, contexto>>
  /\ refrescoFallido' = FALSE
  /\ UNCHANGED <<servidor, llamada, logoutPendiente>>

(* AuthProvider.logout after the fetch: the request reached the server, which
   blacklists the refresh token, or it failed; both tokens are removed in the
   try and in the catch, and LOGOUT is dispatched in the try and in the catch *)
LogoutFin ==
  /\ logoutUsuario # NULL
  /\ \E llega \in BOOLEAN :
       servidor' = IF llega THEN [servidor EXCEPT !.refrescos = @ \ {logoutUsuario}]
                   ELSE servidor
  /\ almacen' = SinTokens
  /\ contexto' = authReducer(contexto, "LOGOUT", NULL)
  /\ logoutUsuario' = NULL
  /\ UNCHANGED <<llamada, logoutPendiente, refrescoFallido>>

(* error.message of a failed call, a non-null value *)
MensajeError == 1

(* The caller takes the result or the error of the call: checkAuth dispatches
   SET_USER or SET_LOADING false, AuthProvider.updateProfile dispatches
   SET_USER or SET_ERROR *)
Terminar ==
  /\ llamada.fn # "ninguna" /\ llamada.pc = "fin"
  /\ llamada' = SinLlamada
  /\ contexto' = IF llamada.resultado = "ok" THEN authReducer(contexto, "SET_USER", Usuario)
                 ELSE IF llamada.fn = "getProfile"
                 THEN authReducer(contexto, "SET_LOADING", FALSE)
                 ELSE authReducer(contexto, "SET_ERROR", MensajeError)
  /\ UNCHANGED <<servidor, almacen, logoutPendiente, logoutUsuario, refrescoFallido>>

----------------------------------------------------------------------------
----------------------------------------------------------------------------
(* Songs and playlists as content: owners, visibility, the songs of a
   playlist and their order. The endpoints are the server's; the requests are
   the ones the clients build. *)

TemaIds == {1, 2, 3}
ListaIds == {1, 2}

(* orden INTEGER DEFAULT 0 *)
OrdenDefault == 0

(* usuario_id: 1 in the payload of both dialogs *)
UsuarioFormulario == 1

(* The request of CreatePlaylistDialog.handleSubmit: the form data with
   usuario_id 1, posted with axios and no Authorization header *)
PayloadPlaylist(es_publica) ==
  [usuario_id |-> UsuarioFormulario, es_publica |-> es_publica, credencial |-> NULL]

(* The request of UploadSongDialog.handleSubmit *)
PayloadCancion == [usuario_id |-> UsuarioFormulario, credencial |-> NULL]

(* A request of a caller who sends Authorization: Bearer of user u *)
PayloadAPI(u, es_publica) ==
  [usuario_id |-> NULL, es_publica |-> es_publica, credencial |-> u]

(* The user a create request is recorded for: the user of its credential, and
   the usuario_id of its body when it carries none *)
Solicitante(req) == IF req.credencial # NULL THEN req.credencial ELSE req.usuario_id

SiguienteId(tabla, ids) == CHOOSE i \in ids : i \notin DOMAIN tabla /\ \A j \in ids : j < i => j \in DOMAIN tabla

HayId(tabla, ids) == \E i \in ids : i \notin DOMAIN tabla /\ \A j \in ids : j < i => j \in DOMAIN tabla

(* POST /contenido/playlists/ *)
InsertarPlaylist(req, quien) ==
  /\ HayId(listas, ListaIds)
  /\ LET id == SiguienteId(listas, ListaIds)
     IN /\ listas' = listas @@ (id :> [usuario_id |-> Solicitante(req),
                                       es_publica |-> req.es_publica])
        /\ creador' = creador @@ (<<"playlists", id>> :> quien)

(* POST /contenido/canciones/ *)
InsertarCancion(req, quien) ==
  /\ HayId(temas, TemaIds)
  /\ LET id == SiguienteId(temas, TemaIds)
     IN /\ temas' = temas @@ (id :> [usuario_id |-> Solicitante(req)])
        /\ creador' = creador @@ (<<"canciones", id>> :> quien)

(* The user logs in at the browser, or out *)
IniciarSesion(u) ==
  /\ sesion = NULL
  /\ sesion' = u
  /\ UNCHANGED <<temas, listas, miembros, creador>>

CerrarSesion ==
  /\ sesion # NULL
  /\ sesion' = NULL
  /\ UNCHANGED <<temas, listas, miembros, creador>>

(* CreatePlaylistDialog.handleSubmit with a title *)
CreatePlaylistSubmit(es_publica) ==
  /\ InsertarPlaylist(PayloadPlaylist(es_publica), sesion)
  /\ UNCHANGED <<sesion, temas, miembros>>

(* UploadSongDialog.handleSubmit with a title and a file URL *)
UploadSongSubmit ==
  /\ InsertarCancion(PayloadCancion, sesion)
  /\ UNCHANGED <<sesion, listas, miembros>>

(* A caller with the credential of user u creates a playlist *)
CrearPlaylistAPI(u, es_publica) ==
  /\ InsertarPlaylist(PayloadAPI(u, es_publica), u)
  /\ UNCHANGED <<sesion, temas, miembros>>

(* A playlist is read by anyone when es_publica, and by its owner *)
VisibleSiempre(c, fila) == TRUE

Visible(c, fila) == fila.es_publica \/ (c # NULL /\ c = fila.usuario_id)

(* GET /contenido/playlists/ for a request with credential c (NULL: none) *)
ListarPlaylists(c) == {p \in DOMAIN listas : Visible(c, listas[p])}

(* GET /contenido/usuarios/{id}/playlists/ *)
ListarPlaylistsUsuario(c, id) ==
  [playlists_publicas |-> {p \in DOMAIN listas : listas[p].usuario_id = id /\ listas[p].es_publica},
   playlists_privadas |-> {p \in DOMAIN listas : /\ listas[p].usuario_id = id
                                                  /\ ~listas[p].es_publica
                                                  /\ Visible(c, listas[p])}]

(* UserProfile.fetchUserPlaylists: both groups of the answer to a request
   without a credential for the logged-in user's id *)
fetchUserPlaylists ==
  IF sesion = NULL THEN {}
  ELSE LET data == ListarPlaylistsUsuario(NULL, sesion)
       IN data.playlists_publicas \cup data.playlists_privadas

(* The rows of playlist_canciones of a playlist *)
FilasDeLista(m, p) == {r \in m : r.playlist_id = p}

CancionesDeLista(m, p) == {r.cancion_id : r \in FilasDeLista(m, p)}

(* The sort key of the songs of a playlist *)
ClaveCancion(r) == r.cancion_id

ClaveOrden(r) == r.orden

(* The orders in which ORDER BY orden may return the songs of a playlist: rows
   of equal orden come in any order *)
ListadosPosibles(m, p) ==
  LET filas == FilasDeLista(m, p)
      n == Cardinality(filas)
  IN {s \in [1..n -> filas] :
        /\ \A i, j \in 1..n : i # j => s[i] # s[j]
        /\ \A i, j \in 1..n : i < j => ClaveOrden(s[i]) <= ClaveOrden(s[j])}

Canciones(s) == [i \in DOMAIN s |-> s[i].cancion_id]

(* total_canciones of a playlist: its songs, counted through playlist_canciones *)
total_canciones(t, m, p) ==
  Cardinality({c \in DOMAIN t : \E r \in m : r.playlist_id = p /\ r.cancion_id = c})

(* GET /contenido/playlists/{id}/: the answers the server may give to a
   request with credential c; none (404) when the playlist is not visible *)
DetallePlaylist(c, p) ==
  IF p \in DOMAIN listas /\ Visible(c, listas[p])
  THEN {[playlist_id |-> p, usuario_id |-> listas[p].usuario_id,
         es_publica |-> listas[p].es_publica,
         total_canciones |-> total_canciones(temas, miembros, p),
         canciones |-> Canciones(s)] : s \in ListadosPosibles(miembros, p)}
  ELSE {}

(* PlaylistView.fetchPlaylist: axios.get without a credential *)
fetchPlaylist(p) == DetallePlaylist(NULL, p)

(* POST /contenido/playlists/{id}/agregar-cancion/ by user u: the owner adds
   a song that exists and is not in the playlist; orden takes its default *)
AgregarCancion(u, p, c) ==
  /\ p \in DOMAIN listas /\ u = listas[p].usuario_id
  /\ c \in DOMAIN temas
  /\ c \notin CancionesDeLista(miembros, p)
  /\ miembros' = miembros \cup {[playlist_id |-> p, cancion_id |-> c, orden |-> OrdenDefault]}
  /\ UNCHANGED <<sesion, temas, listas, creador>>

(* DELETE /contenido/playlists/{id}/quitar-cancion/ by user u *)
QuitarCancion(u, p, c) ==
  /\ p \in DOMAIN listas /\ u = listas[p].usuario_id
  /\ c \in CancionesDeLista(miembros, p)
  /\ miembros' = {r \in miembros : ~(r.playlist_id = p /\ r.cancion_id = c)}
  /\ UNCHANGED <<sesion, temas, listas, creador>>

(* The sequences without repetition of songs of a set *)
Ordenes(S) ==
  UNION {{s \in [1..n -> S] : \A i, j \in 1..n : i # j => s[i] # s[j]} : n \in 0..Cardinality(S)}

Posicion(s, c) == CHOOSE i \in DOMAIN s : s[i] = c

(* reordenar: the bulk update of orden for the rows of the songs the request
   names, each to its position in the request *)
ReordenarFilas(m, p, s) ==
  {IF r.playlist_id = p /\ \E i \in DOMAIN s : s[i] = r.cancion_id
   THEN [r EXCEPT !.orden = Posicion(s, r.cancion_id)]
   ELSE r : r \in m}

(* POST /contenido/playlists/{id}/reordenar/ by user u with the songs in s *)
Reordenar(u, p, s) ==
  /\ p \in DOMAIN listas /\ u = listas[p].usuario_id
  /\ s \in Ordenes(CancionesDeLista(miembros, p))
  /\ miembros' = ReordenarFilas(miembros, p, s)
  /\ UNCHANGED <<sesion, temas, listas, creador>>

(* fk_playlist_canciones_cancion ... ON DELETE CASCADE *)
CascadeMiembrosSinFK(m, c) == m

CascadeMiembros(m, c) == {r \in m : r.cancion_id # c}

(* DELETE of a row of canciones *)
EliminarTema(c) ==
  /\ c \in DOMAIN temas
  /\ temas' = [t \in DOMAIN temas \ {c} |-> temas[t]]
  /\ miembros' = CascadeMiembros(miembros, c)
  /\ UNCHANGED <<sesion, listas, creador>>

(* A playlist_canciones without fk_playlist_canciones_playlist *)
CascadeListaSinFK(m, p) == m

(* ON DELETE CASCADE of fk_playlist_canciones_playlist *)
CascadeLista(m, p) == {r \in m : r.playlist_id # p}

(* DELETE of a row of playlists *)
EliminarLista(p) ==
  /\ p \in DOMAIN listas
  /\ listas' = [l \in DOMAIN listas \ {p} |-> listas[l]]
  /\ miembros' = CascadeLista(miembros, p)
  /\ UNCHANGED <<sesion, temas, creador>>

(* Nobody is logged in at the upload page and there is no content *)
InitContenido ==
  /\ sesion = NULL
  /\ temas = <<>>
  /\ listas = <<>>
  /\ miembros = {}
  /\ creador = <<>>

----------------------------------------------------------------------------
(* Search: the titles of the songs, the search endpoint and SearchBar *)

(* The letters of titles and of search terms *)
Letras == {"a", "A", "b"}

(* Strings of letters of the lengths of L *)
Cadenas(L) == UNION {[1..n -> Letras] : n \in L}

(* titulo VARCHAR(255) NOT NULL, and the dialog refuses a blank title *)
Titulos == Cadenas(1..(MaxLen + 1))

(* What the user may have typed in the search box *)
Terminos == Cadenas(0..MaxLen)

(* The matching of a title is independent of the other titles: one song
   exercises it *)
BusquedaIds == {1}

(* The lower case of a letter and of a string *)
Minuscula(ch) == IF ch = "A" THEN "a" ELSE ch

Lower(str) == [i \in DOMAIN str |-> Minuscula(str[i])]

(* The letters of q all occur in t, in any place *)
ContieneLetras(t, q) == \A k \in DOMAIN q : \E i \in DOMAIN t : t[i] = q[k]

(* q is a substring of t *)
Contiene(t, q) == \E i \in 0..(Len(t) - Len(q)) : SubSeq(t, i + 1, i + Len(q)) = q

(* GET /contenido/canciones/buscar/?q=: the songs whose title contains the
   term, whatever the case of the letters *)
BuscarCanciones(tit, q) ==
  LET encontradas == {c \in DOMAIN tit : Contiene(Lower(tit[c]), Lower(q))}
  IN [termino_busqueda |-> q,
      total_resultados |-> Cardinality(encontradas),
      resultados |-> {[cancion_id |-> c, titulo |-> tit[c]] : c \in encontradas}]

(* SearchService.searchSongs *)
searchSongs(tit, query) ==
  IF Len(query) < 2
  THEN [termino_busqueda |-> query, total_resultados |-> 0, resultados |-> {}]
  ELSE BuscarCanciones(tit, query)

(* POST /contenido/canciones/ with a title *)
PublicarCancion(t) ==
  /\ Len(titulos) + 1 \in BusquedaIds
  /\ titulos' = Append(titulos, t)
  /\ UNCHANGED barra

(* The user types query in SearchBar and performSearch runs to its end *)
performSearch(query) ==
  /\ barra' = IF Len(query) < 2
              THEN [searchTerm |-> query, searchResults |-> {}, totalResults |-> 0,
                    showResults |-> FALSE]
              ELSE LET response == searchSongs(titulos, query)
                   IN [searchTerm |-> query, searchResults |-> response.resultados,
                       totalResults |-> response.total_resultados, showResults |-> TRUE]
  /\ UNCHANGED titulos

InitBusqueda ==
  /\ titulos = <<>>
  /\ barra = [searchTerm |-> <<>>, searchResults |-> {}, totalResults |-> 0,
              showResults |-> FALSE]

----------------------------------------------------------------------------
(* SearchBar step by step: the timer of debounce, the requests in flight
   and their responses *)

(* The wait of debouncedSearch, 300 ms, in ticks of the clock *)
EsperaTics == 2

(* What the user may leave in the search box: nothing, one letter, a term
   the title of the song contains and a term it does not *)
Entradas == {<<>>, <<"a">>, <<"a", "b">>, <<"b", "b">>}

(* err.message || 'Error al buscar canciones' *)
ErrorBusqueda == 1

(* clearTimeout that clears nothing *)
clearTimeoutNada(tabla, id) == tabla

(* clearTimeout(id): a no-op when no timer has the id *)
clearTimeout(tabla, id) == {t \in tabla : t.id # id}

(* setTimeout returns an id that no timer has; an id that has run or was
   cleared is not given again while timeout still holds it *)
NuevoId(tabla, usado) ==
  CHOOSE i \in 1..(Cardinality(tabla) + 2) :
    /\ i # usado
    /\ \A t \in tabla : t.id # i
    /\ \A j \in 1..(i - 1) : j = usado \/ \E t \in tabla : t.id = j

(* The function debounce returns, called with args: it clears the timer it
   set last and sets one that runs later() after the wait *)
executedFunction(args) ==
  LET despejada == clearTimeout(timers, timeout)
      id == NuevoId(despejada, timeout)
  IN /\ timers' = despejada \cup {[id |-> id, resta |-> EsperaTics, args |-> args]}
     /\ timeout' = id

(* The fetch calls searchSongs makes for a query *)
searchSongsFetch(query) == IF Len(query) < 2 THEN {} ELSE {query}

(* performSearch without the guard on the length of the query *)
performSearchSinGuardia(s, query) == [s EXCEPT !.isLoading = TRUE, !.error = NULL]

(* performSearch up to its return or its await *)
performSearchInicio(s, query) ==
  IF Len(query) < 2
  THEN [s EXCEPT !.searchResults = {}, !.totalResults = 0, !.showResults = FALSE,
                 !.isLoading = FALSE]
  ELSE [s EXCEPT !.isLoading = TRUE, !.error = NULL]

(* onChange of the input, and the effect on searchTerm that calls
   debouncedSearch *)
handleInputChange(value) ==
  /\ value # sb.searchTerm
  /\ sb' = IF value = <<>>
           THEN [sb EXCEPT !.searchTerm = value, !.showResults = FALSE,
                           !.searchResults = {}, !.totalResults = 0]
           ELSE [sb EXCEPT !.searchTerm = value]
  /\ executedFunction(value)
  /\ desde' = 0
  /\ rafaga' = IF desde < EsperaTics
               THEN [llamadas |-> IF rafaga.llamadas < 2 THEN rafaga.llamadas + 1 ELSE 2,
                     ultimo |-> value]
               ELSE [llamadas |-> 1, ultimo |-> value]
  /\ ejecutadas' = IF desde < EsperaTics THEN ejecutadas ELSE <<>>
  /\ emitida' = IF value = <<>> THEN <<>> ELSE emitida
  /\ UNCHANGED peticiones

(* A tick of the clock *)
Tic ==
  /\ timers' = {[t EXCEPT !.resta = IF t.resta > 0 THEN t.resta - 1 ELSE 0] : t \in timers}
  /\ desde' = IF desde < EsperaTics THEN desde + 1 ELSE desde
  /\ UNCHANGED <<sb, timeout, peticiones, rafaga, ejecutadas, emitida>>

(* The timer t is due and runs later(): clearTimeout(timeout), then
   performSearch(args) up to its return or its await *)
later(t) ==
  /\ t \in timers /\ t.resta = 0
  /\ timers' = clearTimeout(timers \ {t}, timeout)
  /\ sb' = performSearchInicio(sb, t.args)
  /\ peticiones' = peticiones (+) SetToBag(searchSongsFetch(t.args))
  /\ BagCardinality(peticiones') <= MaxEnVuelo
  /\ ejecutadas' = Append(ejecutadas, t.args)
  /\ emitida' = t.args
  /\ UNCHANGED <<timeout, desde, rafaga>>

(* The response to the request of query arrives with status 200:
   performSearch after its await *)
searchOk(query) ==
  /\ BagIn(query, peticiones)
  /\ LET response == BuscarCanciones(titulos, query)
     IN sb' = [sb EXCEPT !.searchResults = response.resultados,
                         !.totalResults = response.total_resultados,
                         !.showResults = TRUE, !.isLoading = FALSE]
  /\ peticiones' = peticiones (-) SetToBag({query})
  /\ UNCHANGED <<timers, timeout, desde, rafaga, ejecutadas, emitida>>

(* The request of query fails: the catch and the finally of performSearch *)
searchError(query) ==
  /\ BagIn(query, peticiones)
  /\ sb' = [sb EXCEPT !.error = ErrorBusqueda, !.searchResults = {}, !.totalResults = 0,
                      !.isLoading = FALSE]
  /\ peticiones' = peticiones (-) SetToBag({query})
  /\ UNCHANGED <<timers, timeout, desde, rafaga, ejecutadas, emitida>>

(* The search button, or Enter in the input *)
handleSearchClick ==
  /\ Len(sb.searchTerm) >= 2
  /\ ~sb.showResults
  /\ sb' = [sb EXCEPT !.showResults = TRUE]
  /\ UNCHANGED <<timers, timeout, peticiones, desde, rafaga, ejecutadas, emitida>>

(* The close button of SearchResults, or Escape in the input *)
handleCloseResults ==
  /\ sb.showResults
  /\ sb' = [sb EXCEPT !.showResults = FALSE]
  /\ UNCHANGED <<timers, timeout, peticiones, desde, rafaga, ejecutadas, emitida>>

(* SearchBar is mounted and its effect has called debouncedSearch('') *)
InitBuscador ==
  /\ sb = [searchTerm |-> <<>>, searchResults |-> {}, totalResults |-> 0,
           showResults |-> FALSE, isLoading |-> FALSE, error |-> NULL]
  /\ timers = {[id |-> 1, resta |-> EsperaTics, args |-> <<>>]}
  /\ timeout = 1
  /\ peticiones = EmptyBag
  /\ desde = 0
  /\ rafaga = [llamadas |-> 1, ultimo |-> <<>>]
  /\ ejecutadas = <<>>
  /\ emitida = <<>>

----------------------------------------------------------------------------
(* UserMenu, useAuthModal and AuthModal *)

(* AuthModal is rendered by the branch of UserMenu for a visitor who is not
   authenticated, and not while UserMenu shows UserProfile *)
AuthModalMontado(ctx, m) == ~ctx.isAuthenticated /\ ~m.showProfile

(* The mode of AuthModal after a render: useState(initialMode) takes
   initialMode when the component mounts and keeps its state afterwards *)
ModeAlMontar(antes, ahora, m) ==
  IF ~ahora THEN "desmontado"
  ELSE IF antes THEN m.mode ELSE m.authMode

(* The hook and the modal after the auth context or the menu changed: the
   effect of useAuthModal closes the modal when isAuthenticated becomes true *)
Renderizar(ctx, m) ==
  modal' = [modal EXCEPT
              !.isAuthModalOpen = IF ctx.isAuthenticated /\ ~contexto.isAuthenticated
                                  THEN FALSE ELSE @,
              !.mode = ModeAlMontar(AuthModalMontado(contexto, menu),
                                    AuthModalMontado(ctx, m), modal)]

(* useAuthModal.openLoginModal *)
openLoginModal ==
  /\ AuthModalMontado(contexto, menu)
  /\ modal' = [modal EXCEPT !.authMode = "login", !.isAuthModalOpen = TRUE]
  /\ ultimoAbrir' = "login"
  /\ UNCHANGED <<menu, envio, auth>>

(* useAuthModal.openRegisterModal *)
openRegisterModal ==
  /\ AuthModalMontado(contexto, menu)
  /\ modal' = [modal EXCEPT !.authMode = "register", !.isAuthModalOpen = TRUE]
  /\ ultimoAbrir' = "register"
  /\ UNCHANGED <<menu, envio, auth>>

(* AuthModal.handleSwitchToLogin and handleSwitchToRegister *)
handleSwitch(mode) ==
  /\ AuthModalMontado(contexto, menu) /\ modal.isAuthModalOpen
  /\ modal.mode # mode
  /\ modal' = [modal EXCEPT !.mode = mode]
  /\ ultimoAbrir' = "ninguno"
  /\ UNCHANGED <<menu, envio, auth>>

(* AuthModal.handleClose: setMode('login') and closeAuthModal *)
handleClose ==
  /\ AuthModalMontado(contexto, menu) /\ modal.isAuthModalOpen
  /\ modal' = [modal EXCEPT !.mode = "login", !.isAuthModalOpen = FALSE]
  /\ ultimoAbrir' = "ninguno"
  /\ UNCHANGED <<menu, envio, auth>>

(* Login.handleSubmit and Register.handleSubmit up to the await: the
   provider dispatches SET_LOADING true and CLEAR_ERROR *)
FormSubmit ==
  /\ AuthModalMontado(contexto, menu) /\ modal.isAuthModalOpen
  /\ envio = "ninguno"
  /\ envio' = modal.mode
  /\ contexto' = authReducer(authReducer(contexto, "SET_LOADING", TRUE), "CLEAR_ERROR", NULL)
  /\ ultimoAbrir' = "ninguno"
  /\ UNCHANGED <<menu, modal, servidor, almacen, llamada, logoutPendiente, logoutUsuario,
                 refrescoFallido>>

(* login or register succeeds: the tokens are stored and SET_USER is
   dispatched; UserMenu renders its authenticated branch, AuthModal is
   unmounted; onClose() follows *)
FormOk ==
  /\ envio # "ninguno" /\ ~contexto.isAuthenticated
  /\ Login
  /\ envio' = "ninguno"
  /\ Renderizar(contexto', menu)
  /\ ultimoAbrir' = "ninguno"
  /\ UNCHANGED menu

(* login or register fails: SET_ERROR, the form stays *)
FormError ==
  /\ envio # "ninguno"
  /\ envio' = "ninguno"
  /\ contexto' = authReducer(contexto, "SET_ERROR", MensajeError)
  /\ ultimoAbrir' = "ninguno"
  /\ UNCHANGED <<menu, modal, servidor, almacen, llamada, logoutPendiente, logoutUsuario,
                 refrescoFallido>>

(* The avatar of UserMenu is clicked *)
ToggleDropdown ==
  /\ contexto.isAuthenticated /\ ~menu.showProfile
  /\ menu' = [menu EXCEPT !.showDropdown = ~@]
  /\ UNCHANGED <<modal, envio, ultimoAbrir, auth>>

(* UserMenu.handleProfileClick *)
handleProfileClick ==
  /\ contexto.isAuthenticated /\ ~menu.showProfile /\ menu.showDropdown
  /\ menu' = [showDropdown |-> FALSE, showProfile |-> TRUE]
  /\ UNCHANGED <<modal, envio, ultimoAbrir, auth>>

(* onClose of UserProfile: setShowProfile(false) *)
CerrarPerfil ==
  /\ menu.showProfile
  /\ menu' = [menu EXCEPT !.showProfile = FALSE]
  /\ Renderizar(contexto, menu')
  /\ UNCHANGED <<envio, ultimoAbrir, auth>>

(* UserMenu.handleLogout from the dropdown and UserProfile.handleLogout from
   the profile, up to the await of AuthProvider.logout *)
handleLogout ==
  /\ contexto.isAuthenticated /\ (menu.showDropdown \/ menu.showProfile)
  /\ LogoutInicio
  /\ Renderizar(contexto', menu)
  /\ UNCHANGED <<menu, envio, ultimoAbrir>>

(* AuthProvider.logout ends and LOGOUT is dispatched; UserMenu.handleLogout
   goes on with setShowDropdown(false) *)
handleLogoutFin ==
  /\ LogoutFin
  /\ menu' = [menu EXCEPT !.showDropdown = FALSE]
  /\ Renderizar(contexto', menu')
  /\ UNCHANGED <<envio, ultimoAbrir>>

(* The page has loaded for a visitor: the modal is closed, AuthModal is
   mounted with initialMode 'login' *)
InitAcceso ==
  /\ modal = [isAuthModalOpen |-> FALSE, authMode |-> "login", mode |-> "login"]
  /\ menu = [showDropdown |-> FALSE, showProfile |-> FALSE]
  /\ envio = "ninguno"
  /\ ultimoAbrir = "ninguno"

----------------------------------------------------------------------------
(* Library: the effect that loads the tracks and the names of their users *)

(* A run of the effect: the users object of the render that started it, the
   await it is at, and the user requests it awaits *)
Corrida(cache) == [users |-> cache, pc |-> "tracks", pendientes |-> {}]

Quitar(bolsa, x) == bolsa (-) SetToBag({x})

Poner(bolsa, x) == bolsa (+) SetToBag({x})

(* The state of Library when it mounts *)
LibraryInicial == [montada |-> TRUE, tracks |-> {}, loading |-> TRUE, error |-> FALSE]

(* Library mounts: the effect runs with the initial users, {} *)
LibraryMontar ==
  /\ ~lib.montada
  /\ lib' = LibraryInicial
  /\ users' = {}
  /\ corridas' = SetToBag({Corrida({})})
  /\ pedidos' = [id \in Usuarios |-> 0]

(* fetchUser for the ids of a run: an id in the run's users is answered from
   the cache, the others are requested *)
PorPedir(run, ids) == {id \in ids : id \notin run.users}

(* fetchTracks after the answer to GET /contenido/canciones/, whose tracks
   have the usuario_id of autores: setTracks, then fetchUser for each unique
   usuario_id; with nothing to await the run ends with setLoading(false) *)
TracksOk(run, autores) ==
  /\ lib.montada /\ BagIn(run, corridas) /\ run.pc = "tracks"
  /\ LET nuevos == PorPedir(run, autores)
     IN /\ pedidos' = [id \in Usuarios |-> IF id \in nuevos THEN pedidos[id] + 1
                                                            ELSE pedidos[id]]
        /\ corridas' = IF nuevos = {} THEN Quitar(corridas, run)
                       ELSE Poner(Quitar(corridas, run),
                                  [run EXCEPT !.pc = "usuarios", !.pendientes = nuevos])
        /\ lib' = [lib EXCEPT !.tracks = autores,
                              !.loading = IF nuevos = {} THEN FALSE ELSE @]
  /\ UNCHANGED users

(* GET /contenido/canciones/ fails: setError, setLoading(false), the run ends *)
TracksError(run) ==
  /\ lib.montada /\ BagIn(run, corridas) /\ run.pc = "tracks"
  /\ corridas' = Quitar(corridas, run)
  /\ lib' = [lib EXCEPT !.error = TRUE, !.loading = FALSE]
  /\ UNCHANGED <<users, pedidos>>

(* The answers to the requests of the users in S arrive together: setUsers
   adds them to the cache, Library renders with a new users object and the
   effect, which depends on [users], runs again; a run that awaits nothing
   more ends with setLoading(false) *)
UserOk(run, S) ==
  /\ lib.montada /\ BagIn(run, corridas) /\ run.pc = "usuarios"
  /\ S # {} /\ S \subseteq run.pendientes
  /\ users' = users \cup S
  /\ LET resto == run.pendientes \ S
         sigue == IF resto = {} THEN Quitar(corridas, run)
                  ELSE Poner(Quitar(corridas, run), [run EXCEPT !.pendientes = resto])
     IN /\ corridas' = Poner(sigue, Corrida(users'))
        /\ lib' = [lib EXCEPT !.loading = IF resto = {} THEN FALSE ELSE @]
  /\ UNCHANGED pedidos

(* The request of the name of a user fails: the fallback name is returned and
   nothing is cached *)
UserError(run, id) ==
  /\ lib.montada /\ BagIn(run, corridas) /\ run.pc = "usuarios"
  /\ id \in run.pendientes
  /\ LET resto == run.pendientes \ {id}
     IN /\ corridas' = IF resto = {} THEN Quitar(corridas, run)
                       ELSE Poner(Quitar(corridas, run), [run EXCEPT !.pendientes = resto])
        /\ lib' = [lib EXCEPT !.loading = IF resto = {} THEN FALSE ELSE @]
  /\ UNCHANGED <<users, pedidos>>

(* Library is not mounted *)
InitBiblioteca ==
  /\ lib = [LibraryInicial EXCEPT !.montada = FALSE]
  /\ users = {}
  /\ corridas = EmptyBag
  /\ pedidos = [id \in Usuarios |-> 0]

InitOtros ==
  /\ InitContenido
  /\ InitBusqueda
  /\ InitAcceso
  /\ InitBiblioteca
  /\ InitBuscador

vars == <<canciones, nextCancionId, playlists, nextPlaylistId, interacciones, ultima,
          vista, card, pv, red, ajeno, servidor, almacen, llamada, logoutPendiente,
          contexto, logoutUsuario, refrescoFallido, sesion, temas, listas, miembros,
          creador, titulos, barra, modal, menu, envio, ultimoAbrir,
          lib, users, corridas, pedidos, sb, timers, timeout, peticiones, desde,
          rafaga, ejecutadas, emitida>>

CardInicial == [isLiked |-> FALSE, isReposted |-> FALSE, likes |-> 0, reposts |-> 0,
                loading |-> FALSE]

PVInicial == [track |-> [likes |-> 0, reposts |-> 0],
              trackCounts |-> [likes |-> 0, reposts |-> 0],
              trackInteractions |-> [liked |-> FALSE, reposted |-> FALSE]]

(* No page is loaded *)
InitNavegador ==
  /\ vista = "ninguna"
  /\ card = CardInicial
  /\ pv = PVInicial
  /\ red = EmptyBag
  /\ ajeno = FALSE

Init ==
  /\ canciones = <<>>
  /\ nextCancionId = 1
  /\ playlists = {}
  /\ nextPlaylistId = 1
  /\ interacciones = EmptyBag
  /\ ultima = Respuesta(NULL, FALSE)
  /\ InitNavegador
  /\ InitAuth
  /\ InitOtros

Next ==
  \/ CrearCancion /\ UNCHANGED <<cliente, auth, otros>>
  \/ \E id \in CancionIds : EliminarCancion(id) /\ UNCHANGED <<cliente, auth, otros>>
  \/ CrearPlaylist /\ UNCHANGED <<cliente, auth, otros>>
  \/ \E id \in PlaylistIds : EliminarPlaylist(id) /\ UNCHANGED <<cliente, auth, otros>>
  \/ \E p \in ToggleParams : Toggle(p) /\ UNCHANGED <<cliente, auth, otros>>

Spec == Init /\ [][Next]_vars

NextCrear ==
  \/ CrearCancion /\ UNCHANGED <<cliente, auth, otros>>
  \/ CrearPlaylist /\ UNCHANGED <<cliente, auth, otros>>
  \/ \E p \in ToggleParams : Toggle(p) /\ UNCHANGED <<cliente, auth, otros>>
  \/ \E p \in ToggleParams : CrearInteraccion(p) /\ UNCHANGED <<cliente, auth, otros>>

SpecCrear == Init /\ [][NextCrear]_vars

(* Song 1 and playlist 1 exist, nobody has liked or reposted yet *)
InitCliente ==
  /\ canciones = (CancionVista :>
        [likes_count |-> LikesCountDefault, reposts_count |-> RepostsCountDefault,
         reproducciones |-> ReproduccionesDefault])
  /\ nextCancionId = CancionVista + 1
  /\ playlists = {1}
  /\ nextPlaylistId = 2
  /\ interacciones = EmptyBag
  /\ ultima = Respuesta(NULL, FALSE)
  /\ InitNavegador
  /\ InitAuth
  /\ InitOtros

NextCliente ==
  \/ MontarLibrary /\ UNCHANGED <<auth, otros>>
  \/ \E t \in {"like", "repost"} : CardClick(t) /\ UNCHANGED <<auth, otros>>
  \/ \E m \in BagToSet(red) : CardRecibe(m) /\ UNCHANGED <<auth, otros>>
  \/ MontarPlaylist /\ UNCHANGED <<auth, otros>>
  \/ \E t \in {"like", "repost"} : PVClick(t) /\ UNCHANGED <<auth, otros>>
  \/ \E m \in BagToSet(red) : PVRecibe(m) /\ UNCHANGED <<auth, otros>>
  \/ \E m \in BagToSet(red) : Procesar(m) /\ UNCHANGED <<auth, otros>>
  \/ \E u \in OtrosLlamadores, t \in {"like", "repost"} : OtroToggle(u, t) /\ UNCHANGED <<auth, otros>>
  \/ EliminarCancion(CancionVista) /\ UNCHANGED <<cliente, auth, otros>>

SpecCliente == InitCliente /\ [][NextCliente]_vars

NextAuth ==
  \/ Login /\ UNCHANGED <<dbvars, ultima, cliente, otros>>
  \/ \E t \in Tokens : Expirar(t) /\ UNCHANGED <<dbvars, ultima, cliente, otros>>
  \/ \E t \in Tokens : ExpirarRefresh(t) /\ UNCHANGED <<dbvars, ultima, cliente, otros>>
  \/ \E fn \in {"getProfile", "updateProfile"} : Llamar(fn) /\ UNCHANGED <<dbvars, ultima, cliente, otros>>
  \/ RespuestaPerfil /\ UNCHANGED <<dbvars, ultima, cliente, otros>>
  \/ RefreshToken /\ UNCHANGED <<dbvars, ultima, cliente, otros>>
  \/ LogoutFondo /\ UNCHANGED <<dbvars, ultima, cliente, otros>>
  \/ LogoutInicio /\ UNCHANGED <<dbvars, ultima, cliente, otros>>
  \/ LogoutFin /\ UNCHANGED <<dbvars, ultima, cliente, otros>>
  \/ Terminar /\ UNCHANGED <<dbvars, ultima, cliente, otros>>

SpecAuth == Init /\ [][NextAuth]_vars

(* Every song and playlist the callers may name exists; the callers toggle
   likes and reposts of songs and play songs *)
InitToggle ==
  /\ canciones = [c \in CancionIds |->
        [likes_count |-> LikesCountDefault, reposts_count |-> RepostsCountDefault,
         reproducciones |-> ReproduccionesDefault]]
  /\ nextCancionId = MaxCanciones + 1
  /\ playlists = PlaylistIds
  /\ nextPlaylistId = Cardinality(PlaylistIds) + 1
  /\ interacciones = EmptyBag
  /\ ultima = Respuesta(NULL, FALSE)
  /\ InitNavegador
  /\ InitAuth
  /\ InitOtros

NextToggle ==
  \/ \E p \in ParamsCancion : Toggle(p) /\ UNCHANGED <<cliente, auth, otros>>
  \/ \E id \in CancionIds : Reproducir(id) /\ UNCHANGED <<cliente, auth, otros>>

SpecToggle == InitToggle /\ [][NextToggle]_vars

(* The songs and the playlist exist, in the columns of both views of the
   tables: the counters and the owners *)
InitIntegridad ==
  /\ canciones = [c \in CancionIds |->
        [likes_count |-> LikesCountDefault, reposts_count |-> RepostsCountDefault,
         reproducciones |-> ReproduccionesDefault]]
  /\ nextCancionId = MaxCanciones + 1
  /\ playlists = PlaylistIds
  /\ nextPlaylistId = Cardinality(PlaylistIds) + 1
  /\ interacciones = EmptyBag
  /\ ultima = Respuesta(NULL, FALSE)
  /\ InitNavegador
  /\ InitAuth
  /\ sesion = UsuarioFormulario
  /\ temas = [c \in CancionIds |-> [usuario_id |-> UsuarioFormulario]]
  /\ listas = [p \in PlaylistIds |-> [usuario_id |-> UsuarioFormulario, es_publica |-> TRUE]]
  /\ miembros = {}
  /\ creador = [k \in ({"canciones"} \X CancionIds) \cup ({"playlists"} \X PlaylistIds) |->
                  UsuarioFormulario]
  /\ InitBusqueda
  /\ InitAcceso
  /\ InitBiblioteca
  /\ InitBuscador

(* DELETE of a row of canciones, in both views of the table *)
BorrarCancion(c) ==
  /\ EliminarCancion(c)
  /\ EliminarTema(c)
  /\ UNCHANGED <<cliente, auth, busqueda, acceso, biblioteca, buscador>>

(* DELETE of a row of playlists, in both views of the table *)
BorrarPlaylist(p) ==
  /\ EliminarPlaylist(p)
  /\ EliminarLista(p)
  /\ UNCHANGED <<cliente, auth, busqueda, acceso, biblioteca, buscador>>

NextIntegridad ==
  \/ \E p \in ParamsCancion \cup ParamsPlaylist : Toggle(p) /\ UNCHANGED <<cliente, auth, otros>>
  \/ \E u \in Usuarios, p \in PlaylistIds, c \in CancionIds :
       AgregarCancion(u, p, c) /\ UNCHANGED <<dbvars, ultima, cliente, auth, busqueda, acceso, biblioteca, buscador>>
  \/ \E c \in CancionIds : BorrarCancion(c)
  \/ \E p \in PlaylistIds : BorrarPlaylist(p)

SpecIntegridad == InitIntegridad /\ [][NextIntegridad]_vars

(* Logging in, failing to log in or to register, and logging out *)
NextIngreso ==
  \/ Login /\ UNCHANGED <<dbvars, ultima, cliente, otros>>
  \/ LoginError /\ UNCHANGED <<dbvars, ultima, cliente, otros>>
  \/ RegisterError /\ UNCHANGED <<dbvars, ultima, cliente, otros>>
  \/ \E t \in Tokens : ExpirarRefresh(t) /\ UNCHANGED <<dbvars, ultima, cliente, otros>>
  \/ LogoutInicio /\ UNCHANGED <<dbvars, ultima, cliente, otros>>
  \/ LogoutFin /\ UNCHANGED <<dbvars, ultima, cliente, otros>>

SpecIngreso == Init /\ [][NextIngreso]_vars

NextContenido ==
  \/ \E u \in Usuarios : IniciarSesion(u) /\ UNCHANGED <<dbvars, ultima, cliente, auth, busqueda, acceso, biblioteca, buscador>>
  \/ CerrarSesion /\ UNCHANGED <<dbvars, ultima, cliente, auth, busqueda, acceso, biblioteca, buscador>>
  \/ \E b \in BOOLEAN : CreatePlaylistSubmit(b) /\ UNCHANGED <<dbvars, ultima, cliente, auth, busqueda, acceso, biblioteca, buscador>>
  \/ UploadSongSubmit /\ UNCHANGED <<dbvars, ultima, cliente, auth, busqueda, acceso, biblioteca, buscador>>
  \/ \E u \in Usuarios, b \in BOOLEAN :
       CrearPlaylistAPI(u, b) /\ UNCHANGED <<dbvars, ultima, cliente, auth, busqueda, acceso, biblioteca, buscador>>

SpecContenido == Init /\ [][NextContenido]_vars

(* User 1 is logged in and has uploaded the songs and created playlist 1 *)
InitListas ==
  /\ canciones = <<>>
  /\ nextCancionId = 1
  /\ playlists = {}
  /\ nextPlaylistId = 1
  /\ interacciones = EmptyBag
  /\ ultima = Respuesta(NULL, FALSE)
  /\ InitNavegador
  /\ InitAuth
  /\ sesion = UsuarioFormulario
  /\ temas = [c \in TemaIds |-> [usuario_id |-> UsuarioFormulario]]
  /\ listas = (1 :> [usuario_id |-> UsuarioFormulario, es_publica |-> TRUE])
  /\ miembros = {}
  /\ creador = [k \in ({"canciones"} \X TemaIds) \cup {<<"playlists", 1>>} |-> UsuarioFormulario]
  /\ InitBusqueda
  /\ InitAcceso
  /\ InitBiblioteca
  /\ InitBuscador

NextListas ==
  \/ \E b \in BOOLEAN : CreatePlaylistSubmit(b) /\ UNCHANGED <<dbvars, ultima, cliente, auth, busqueda, acceso, biblioteca, buscador>>
  \/ \E u \in Usuarios, p \in ListaIds, c \in TemaIds :
       AgregarCancion(u, p, c) /\ UNCHANGED <<dbvars, ultima, cliente, auth, busqueda, acceso, biblioteca, buscador>>
  \/ \E u \in Usuarios, p \in ListaIds, c \in TemaIds :
       QuitarCancion(u, p, c) /\ UNCHANGED <<dbvars, ultima, cliente, auth, busqueda, acceso, biblioteca, buscador>>
  \/ \E u \in Usuarios, p \in ListaIds :
       \E s \in Ordenes(CancionesDeLista(miembros, p)) :
         Reordenar(u, p, s) /\ UNCHANGED <<dbvars, ultima, cliente, auth, busqueda, acceso, biblioteca, buscador>>
  \/ \E c \in TemaIds : EliminarTema(c) /\ UNCHANGED <<dbvars, ultima, cliente, auth, busqueda, acceso, biblioteca, buscador>>

SpecListas == InitListas /\ [][NextListas]_vars

NextBusqueda ==
  \/ \E t \in Titulos : PublicarCancion(t) /\ UNCHANGED <<dbvars, ultima, cliente, auth, contenido, acceso, biblioteca, buscador>>
  \/ \E q \in Terminos : performSearch(q) /\ UNCHANGED <<dbvars, ultima, cliente, auth, contenido, acceso, biblioteca, buscador>>

SpecBusqueda == Init /\ [][NextBusqueda]_vars

sinAcceso == <<dbvars, ultima, cliente, contenido, busqueda, biblioteca, buscador>>

NextModal ==
  \/ openLoginModal /\ UNCHANGED sinAcceso
  \/ openRegisterModal /\ UNCHANGED sinAcceso
  \/ \E m \in {"login", "register"} : handleSwitch(m) /\ UNCHANGED sinAcceso
  \/ handleClose /\ UNCHANGED sinAcceso
  \/ FormSubmit /\ UNCHANGED sinAcceso
  \/ FormOk /\ UNCHANGED sinAcceso
  \/ FormError /\ UNCHANGED sinAcceso
  \/ ToggleDropdown /\ UNCHANGED sinAcceso
  \/ handleProfileClick /\ UNCHANGED sinAcceso
  \/ CerrarPerfil /\ UNCHANGED sinAcceso
  \/ handleLogout /\ UNCHANGED sinAcceso
  \/ handleLogoutFin /\ UNCHANGED sinAcceso

SpecModal == Init /\ [][NextModal]_vars

sinBiblioteca == <<dbvars, ultima, cliente, auth, contenido, busqueda, acceso, buscador>>

NextLibrary ==
  \/ LibraryMontar /\ UNCHANGED sinBiblioteca
  \/ \E run \in BagToSet(corridas) : \E autores \in SUBSET Usuarios :
       TracksOk(run, autores) /\ UNCHANGED sinBiblioteca
  \/ \E run \in BagToSet(corridas) : TracksError(run) /\ UNCHANGED sinBiblioteca
  \/ \E run \in BagToSet(corridas) : \E S \in SUBSET run.pendientes :
       UserOk(run, S) /\ UNCHANGED sinBiblioteca
  \/ \E run \in BagToSet(corridas) : \E id \in run.pendientes :
       UserError(run, id) /\ UNCHANGED sinBiblioteca

SpecLibrary == Init /\ [][NextLibrary]_vars

sinBuscador == <<dbvars, ultima, cliente, auth, contenido, acceso, biblioteca>>

(* The catalog has one song, titled bAb *)
InitBarra ==
  /\ canciones = <<>>
  /\ nextCancionId = 1
  /\ playlists = {}
  /\ nextPlaylistId = 1
  /\ interacciones = EmptyBag
  /\ ultima = Respuesta(NULL, FALSE)
  /\ InitNavegador
  /\ InitAuth
  /\ InitContenido
  /\ titulos = << <<"b", "A", "b">> >>
  /\ barra = [searchTerm |-> <<>>, searchResults |-> {}, totalResults |-> 0,
              showResults |-> FALSE]
  /\ InitAcceso
  /\ InitBiblioteca
  /\ InitBuscador

Teclear == \E v \in Entradas : handleInputChange(v) /\ UNCHANGED <<sinBuscador, busqueda>>

Avanzar == Tic /\ UNCHANGED <<sinBuscador, busqueda>>

Disparar == \E t \in timers : later(t) /\ UNCHANGED <<sinBuscador, busqueda>>

Responder == \E q \in BagToSet(peticiones) : searchOk(q) /\ UNCHANGED <<sinBuscador, busqueda>>

Fallar == \E q \in BagToSet(peticiones) : searchError(q) /\ UNCHANGED <<sinBuscador, busqueda>>

NextBarra ==
  \/ Teclear
  \/ Avanzar
  \/ Disparar
  \/ Responder
  \/ Fallar
  \/ handleSearchClick /\ UNCHANGED <<sinBuscador, busqueda>>
  \/ handleCloseResults /\ UNCHANGED <<sinBuscador, busqueda>>

SpecBarra == InitBarra /\ [][NextBarra]_vars

(* The clock advances, a request in flight gets its response or fails, and
   a timer that is due runs *)
SpecBarraJusta ==
  SpecBarra /\ WF_vars(Avanzar) /\ WF_vars(Responder \/ Fallar) /\ WF_vars(Disparar)

----------------------------------------------------------------------------
(* Properties of the tables and of the toggle *)

Copias(tabla, filas) == BagCardinality([r \in filas |-> tabla[r]])

(* The number of rows of a tipo that reference a song *)
CuentaFilas(tabla, tipo, s) ==
  Copias(tabla, {r \in BagToSet(tabla) : r.tipo = tipo /\ r.cancion_id = s})

(* C1: after any sequence of toggles (and of song and playlist creations and
   deletions), every song's likes_count is the number of like rows that
   reference it and its reposts_count the number of repost rows. *)
C1_ContadoresIgualFilas ==
  \A s \in DOMAIN canciones :
    /\ canciones[s].likes_count = CuentaFilas(interacciones, "like", s)
    /\ canciones[s].reposts_count = CuentaFilas(interacciones, "repost", s)

(* Two users like the same song *)
C1_Witness ==
  \E s \in DOMAIN canciones :
    canciones[s].likes_count = 2 /\ CuentaFilas(interacciones, "like", s) = 2

ValorContador(cs, p) ==
  IF p.cancion_id # NULL /\ p.cancion_id \in DOMAIN cs
  THEN cs[p.cancion_id][Contador(p.tipo)]
  ELSE NULL

(* C2: in every reachable state a toggle call on an existing target does
   exactly one of two things: if the row of (user, type, target) exists the
   row is deleted, the table loses one row, the target's counter goes down by
   one but not below zero and the call answers inactive; otherwise one row is
   inserted, the counter goes up by one and the call answers active. *)
C2_ToggleBorraOInserta ==
  \A p \in ToggleParams :
    TargetExists(DB, p) =>
      LET r == ToggleEstado(DB, p)
      IN IF CopiesIn(Fila(p), interacciones) >= 1
         THEN /\ CopiesIn(Fila(p), r.db.interacciones) = 0
              /\ BagCardinality(r.db.interacciones) = BagCardinality(interacciones) - 1
              /\ ValorContador(r.db.canciones, p) = Max(0, ValorContador(canciones, p) - 1)
              /\ r.db.playlists = playlists
              /\ r.resp = Respuesta(200, FALSE)
         ELSE /\ CopiesIn(Fila(p), r.db.interacciones) = 1
              /\ BagCardinality(r.db.interacciones) = BagCardinality(interacciones) + 1
              /\ ValorContador(r.db.canciones, p)
                   = IF p.cancion_id # NULL THEN ValorContador(canciones, p) + 1 ELSE NULL
              /\ r.db.playlists = playlists
              /\ r.resp = Respuesta(200, TRUE)

(* A toggle has just removed one of two likes of a song *)
C2_Witness ==
  /\ ultima = Respuesta(200, FALSE)
  /\ \E s \in DOMAIN canciones :
       canciones[s].likes_count = 1 /\ CuentaFilas(interacciones, "like", s) = 1

(* C3: from every reachable state, for every user, type and existing target,
   toggling twice in a row gives back the same rows and the same counters. *)
C3_DosTogglesRestauran ==
  \A p \in ToggleParams :
    TargetExists(DB, p) => ToggleEstado(ToggleEstado(DB, p).db, p).db = DB

(* The state after a like and its undoing: no row, every counter back at zero *)
C3_Witness ==
  /\ ultima = Respuesta(200, FALSE)
  /\ interacciones = EmptyBag
  /\ DOMAIN canciones # {}
  /\ \A s \in DOMAIN canciones :
       canciones[s].likes_count = 0 /\ canciones[s].reposts_count = 0

(* The rows of a user and a tipo that reference a target *)
FilasDe(tabla, u, t, col, id) ==
  {r \in BagToSet(tabla) : r.usuario_id = u /\ r.tipo = t /\ r[col] = id}

(* C4: at most one row for each (user, target, type), the target being a
   song, a playlist or a user, after any sequence of toggles and of direct
   creations. *)
C4_UnaFilaPorTupla ==
  \A u \in Usuarios, t \in {"like", "repost", "follow"} :
    /\ \A c \in CancionIds : Copias(interacciones, FilasDe(interacciones, u, t, "cancion_id", c)) <= 1
    /\ \A l \in PlaylistIds : Copias(interacciones, FilasDe(interacciones, u, t, "playlist_id", l)) <= 1
    /\ \A o \in UsuarioIds :
         Copias(interacciones, FilasDe(interacciones, u, t, "usuario_objetivo_id", o)) <= 1

(* A direct creation of a row that exists has just been refused *)
C4_Witness ==
  /\ ultima = Respuesta(400, FALSE)
  /\ \E r \in BagToSet(interacciones) : r.cancion_id # NULL

(* No row references a song, a playlist or a user that does not exist *)
SinHuerfanas ==
  \A r \in BagToSet(interacciones) :
    /\ r.cancion_id # NULL => r.cancion_id \in DOMAIN canciones
    /\ r.playlist_id # NULL => r.playlist_id \in playlists
    /\ r.usuario_objetivo_id # NULL => r.usuario_objetivo_id \in Usuarios

(* C7: in every reachable state a toggle whose target does not exist, or was
   deleted before the call, answers 404 and changes no table; no row ever
   references a missing target. *)
C7_ObjetivoAusente404 ==
  /\ SinHuerfanas
  /\ \A p \in ToggleParams :
       ~TargetExists(DB, p) =>
         ToggleEstado(DB, p) = [db |-> DB, resp |-> Respuesta(404, FALSE)]

(* A toggle has answered 404 after a song was deleted *)
C7_Witness ==
  /\ ultima = Respuesta(404, FALSE)
  /\ \E c \in CancionIds : c < nextCancionId /\ c \notin DOMAIN canciones

(* C8: every row references a user and exactly one target: one of cancion_id,
   playlist_id and usuario_objetivo_id is set and the other two are NULL. *)
C8_UnSoloObjetivo ==
  \A r \in BagToSet(interacciones) :
    /\ r.usuario_id \in Usuarios
    /\ Cardinality({col \in {"cancion_id", "playlist_id", "usuario_objetivo_id"} :
                      r[col] # NULL}) = 1

(* The table holds a row on a song and a row on a playlist or a user *)
C8_Witness ==
  /\ \E r \in BagToSet(interacciones) : r.cancion_id # NULL
  /\ \E r \in BagToSet(interacciones) : r.cancion_id = NULL

----------------------------------------------------------------------------
(* Properties of the browser and of the calls it has in flight *)

HayCancion == CancionVista \in DOMAIN canciones

(* C5: the calls in flight for one (user, type, song) are served one at a
   time in some order, each as a whole: serving a call flips the existence of
   the row and answers the new state, there is never more than one row of the
   tuple, and the song's counters stay equal to its rows. *)
C5_ToggleAtomico ==
  /\ [](HayCancion =>
          /\ canciones[CancionVista].likes_count = CuentaFilas(interacciones, "like", CancionVista)
          /\ canciones[CancionVista].reposts_count
               = CuentaFilas(interacciones, "repost", CancionVista)
          /\ \A t \in {"like", "repost"} : CopiesIn(Fila(ParamsCliente(t)), interacciones) <= 1)
  /\ [][\A m \in BagToSet(red) :
          (Procesar(m) /\ HayCancion) =>
            /\ Existe(DB', ParamsCliente(m.tipo)) # Existe(DB, ParamsCliente(m.tipo))
            /\ BagIn(Mensaje(m.origen, m.tipo, "respondida",
                             Respuesta(200, Existe(DB', ParamsCliente(m.tipo)))), red')]_vars

(* Two like calls of PlaylistView were in flight together and both are
   answered: one active, one inactive *)
C5_Witness ==
  /\ BagIn(Mensaje("pv", "like", "respondida", Respuesta(200, TRUE)), red)
  /\ BagIn(Mensaje("pv", "like", "respondida", Respuesta(200, FALSE)), red)

(* C6: after any number of rapid clicks on the like or the repost control of
   a track of PlaylistView, once every call is answered and nobody else has
   toggled, user 1 has at most one row of the tuple and the count shown
   differs from the count the page started with by at most one. *)
C6_SinDobleConteo ==
  (vista = "playlist" /\ ~ajeno /\ red = EmptyBag) =>
    /\ \A t \in {"like", "repost"} : CopiesIn(Fila(ParamsCliente(t)), interacciones) <= 1
    /\ Mostrado("likes") - pv.track.likes \in {-1, 0, 1}
    /\ Mostrado("reposts") - pv.track.reposts \in {-1, 0, 1}

(* C9: when nobody else has toggled song 1 since Library loaded, after every
   successful like toggle of the AudioCard its liked flag equals the existence
   of the row of (user 1, like, song 1) and its like count equals the song's
   likes_count. *)
C9_VistaIgualServidor ==
  [][\A m \in BagToSet(red) :
      (CardRecibe(m) /\ m.tipo = "like" /\ m.resp.status = 200 /\ ~ajeno /\ HayCancion) =>
        /\ card'.isLiked = Existe(DB', ParamsCliente("like"))
        /\ card'.likes = canciones'[CancionVista].likes_count]_vars

(* The card shows a like given on top of the like of another user *)
C9_Witness ==
  /\ vista = "library" /\ ~ajeno /\ HayCancion
  /\ ~card.loading /\ card.isLiked /\ card.likes = 2
  /\ canciones[CancionVista].likes_count = 2

----------------------------------------------------------------------------
(* Properties of AuthService *)

(* C10: a getProfile or updateProfile call that meets a 401 refreshes the
   token once and retries once: in one call there is at most one successful
   refresh and there are at most two fetches of the resource, whatever the
   server answers to the retry. *)
C10_UnSoloReintento ==
  llamada.refrescos <= 1 /\ llamada.intentos <= 2

(* Nothing of AuthService or AuthProvider is pending *)
AuthEnReposo == llamada.fn = "ninguna" /\ ~logoutPendiente /\ logoutUsuario = NULL

SesionCerrada ==
  /\ almacen = SinTokens
  /\ ~contexto.isAuthenticated /\ contexto.user = NULL

(* C11: a failed refreshToken forces logout: once the failed call and the
   logout it started have run to their end, and the user has done nothing
   since, no token is left in storage and the auth context is
   unauthenticated with user null. *)
C11_FalloFuerzaLogout ==
  (refrescoFallido /\ AuthEnReposo) => SesionCerrada

(* C12: the session survives the rotation of refresh tokens: the client
   holds the tokens issued last, that is, the stored refresh token is the one
   issued together with the stored access token, so a later refresh does not
   present a refresh token that was already used. *)
C12_RotacionConservada ==
  almacen.refresh_token # NULL => almacen.refresh_token = almacen.access_token

(* C13: logout always logs out locally: when AuthProvider.logout completes,
   whether the server request succeeded, failed or was skipped for lack of a
   refresh token, no token is left in storage and the auth context has
   isAuthenticated false, user null, loading false and error null. *)
C13_LogoutSiempreLocal ==
  [][(LogoutFin \/ (LogoutInicio /\ logoutUsuario' = NULL)) =>
       /\ almacen' = SinTokens
       /\ contexto' = [user |-> NULL, isAuthenticated |-> FALSE, loading |-> FALSE,
                       error |-> NULL]]_vars

(* A logout whose request did not reach the server has completed: the refresh
   token is still good at the server, the client is logged out *)
C13_Witness ==
  /\ servidor.emitidos = 1 /\ 1 \in servidor.refrescos
  /\ almacen = SinTokens /\ logoutUsuario = NULL
  /\ contexto = [user |-> NULL, isAuthenticated |-> FALSE, loading |-> FALSE, error |-> NULL]

(* C14: only the owning user can mutate a song, an album or a playlist: a
   create request records the authenticated requester as the owner, so every
   row created while a user was logged in has that user as its usuario_id. *)
C14_CreadorEsPropietario ==
  /\ \A p \in DOMAIN listas :
       creador[<<"playlists", p>>] # NULL => listas[p].usuario_id = creador[<<"playlists", p>>]
  /\ \A c \in DOMAIN temas :
       creador[<<"canciones", c>>] # NULL => temas[c].usuario_id = creador[<<"canciones", c>>]

(* The credential of a read request: a user's, or none *)
Credenciales == Usuarios \cup {NULL}

(* The playlists a request with credential c is given by the listing, by the
   detail and by the per-user listings *)
Leidas(c) ==
  ListarPlaylists(c)
    \cup {p \in DOMAIN listas : DetallePlaylist(c, p) # {}}
    \cup UNION {ListarPlaylistsUsuario(c, id).playlists_publicas
                  \cup ListarPlaylistsUsuario(c, id).playlists_privadas : id \in Usuarios}

(* C15: a playlist whose es_publica is false is never returned by a read
   (listing, detail or per-user listing) to a requester other than its owner,
   and a public playlist is readable by anyone; the same holds for what
   UserProfile and PlaylistView fetch for the user at the browser. *)
C15_PrivadaSoloPropietario ==
  /\ \A c \in Credenciales : \A p \in Leidas(c) :
       listas[p].es_publica \/ listas[p].usuario_id = c
  /\ \A c \in Credenciales : \A p \in DOMAIN listas :
       listas[p].es_publica =>
         /\ p \in ListarPlaylists(c)
         /\ DetallePlaylist(c, p) # {}
         /\ p \in ListarPlaylistsUsuario(c, listas[p].usuario_id).playlists_publicas
  /\ \A p \in fetchUserPlaylists : listas[p].es_publica \/ listas[p].usuario_id = sesion
  /\ \A p \in DOMAIN listas : fetchPlaylist(p) # {} => listas[p].es_publica

(* User 2 owns a private playlist and user 1 is at the browser: the reads of
   user 2 return it, those of user 1 and of a request without credential do
   not *)
C15_Witness ==
  /\ sesion = 1
  /\ \E p \in DOMAIN listas :
       /\ ~listas[p].es_publica /\ listas[p].usuario_id = 2
       /\ p \in Leidas(2) /\ p \notin Leidas(1) /\ p \notin Leidas(NULL)
       /\ fetchPlaylist(p) = {}

(* C16: a playlist created with no songs has total_canciones = 0 and an
   empty ordered song list when fetched, and after any sequence of add-song
   and remove-song operations (and reorders and song deletions) the
   total_canciones of every playlist equals the number of its membership rows
   and the length of the song list its detail returns. *)
C16_TotalIgualFilas ==
  /\ [](\A p \in DOMAIN listas :
          /\ total_canciones(temas, miembros, p) = Cardinality(FilasDeLista(miembros, p))
          /\ \A d \in DetallePlaylist(listas[p].usuario_id, p) :
               d.total_canciones = Len(d.canciones))
  /\ [][\A p \in (DOMAIN listas') \ DOMAIN listas :
          /\ total_canciones(temas', miembros', p) = 0
          /\ {Canciones(l) : l \in ListadosPosibles(miembros', p)} = {<<>>}]_vars

(* Playlist 2 has been created and has no songs; playlist 1 has two songs
   after a song of the library was deleted *)
C16_Witness ==
  /\ 2 \in DOMAIN listas /\ FilasDeLista(miembros, 2) = {}
  /\ total_canciones(temas, miembros, 1) = 2
  /\ DOMAIN temas # TemaIds

(* The permutations of the songs of a set *)
Permutaciones(S) == {s \in Ordenes(S) : Len(s) = Cardinality(S)}

(* C17: reordering a playlist to any permutation of its songs and then
   fetching it returns the songs in exactly that permutation, for every
   playlist and every permutation. *)
C17_ReordenarYLeer ==
  \A p \in DOMAIN listas : \A s \in Permutaciones(CancionesDeLista(miembros, p)) :
    {Canciones(l) : l \in ListadosPosibles(ReordenarFilas(miembros, p, s), p)} = {s}

(* Playlist 1 holds three songs and is fetched as [3, 1, 2] and in no other
   order: it has been reordered *)
C17_Witness ==
  /\ 1 \in DOMAIN listas
  /\ \A d \in DetallePlaylist(listas[1].usuario_id, 1) : d.canciones = <<3, 1, 2>>

(* Two letters are the same whatever their case *)
MismaLetra(x, y) == x = y \/ {x, y} = {"a", "A"}

(* The title has the term in it, compared case-insensitively *)
ContieneSinCaso(t, q) ==
  \E i \in 0..(Len(t) - Len(q)) : \A k \in 1..Len(q) : MismaLetra(t[i + k], q[k])

(* C18: for every search term of at least two characters, every result that
   the search returns has a title that contains the term, compared
   case-insensitively; this holds for what SearchBar shows for the term the
   user typed and for every term searchSongs may be called with. *)
C18_ResultadosContienenTermino ==
  /\ Len(barra.searchTerm) >= 2 =>
       \A r \in barra.searchResults : ContieneSinCaso(r.titulo, barra.searchTerm)
  /\ \A q \in Terminos : Len(q) >= 2 =>
       \A r \in searchSongs(titulos, q).resultados :
         /\ r.titulo = titulos[r.cancion_id]
         /\ ContieneSinCaso(r.titulo, q)

(* The search for "ab" returned the song titled "bAb", which the search for
   "ba" would return too and the search for "bb" would not *)
C18_Witness ==
  /\ barra.searchTerm = <<"a", "b">>
  /\ barra.showResults /\ barra.totalResults = 1
  /\ {r.titulo : r \in barra.searchResults} = {<<"b", "A", "b">>}
  /\ searchSongs(titulos, <<"b", "a">>).total_resultados = 1
  /\ searchSongs(titulos, <<"b", "b">>).resultados = {}

(* C19: after openRegisterModal is called the authentication modal is open
   and shows the registration form, and after openLoginModal it is open and
   shows the login form, whatever sequence of open, switch and close
   operations came before. *)
C19_AbrirMuestraFormulario ==
  ultimoAbrir # "ninguno" => (modal.isAuthModalOpen /\ modal.mode = ultimoAbrir)

(* C20: the user cache of Library avoids repeated calls: while Library is
   mounted the name of each distinct user id is requested from the server at
   most once, however the track and user responses interleave with re-runs
   of the loading effect. *)
C20_UnaPeticionPorUsuario ==
  lib.montada => \A id \in Usuarios : pedidos[id] <= 1

(* C21: in a sequence of calls of debouncedSearch in which each call follows
   the one before by less than the wait, performSearch does not run while a
   timer is set, and once it has run it has run exactly once, with the
   arguments of the last call; and unless the user types for ever, a timer
   that is set leads to that one execution. *)
C21_UnaEjecucionPorRafaga ==
  /\ [](rafaga.llamadas > 0 =>
         IF timers # {} THEN ejecutadas = <<>> ELSE ejecutadas = <<rafaga.ultimo>>)
  /\ \/ []<><<Teclear>>_vars
     \/ ((timers # {}) ~> (timers = {} /\ ejecutadas = <<rafaga.ultimo>>))

(* The user typed a, then ab before the wait was over; performSearch ran
   once, with ab, and its request is in flight *)
C21_Witness ==
  /\ rafaga = [llamadas |-> 2, ultimo |-> <<"a", "b">>]
  /\ timers = {}
  /\ ejecutadas = << <<"a", "b">> >>
  /\ BagIn(<<"a", "b">>, peticiones)
  /\ sb.isLoading

(* C22: for an empty query or a query of fewer than two characters,
   searchSongs makes no fetch and returns no results with total 0, and
   performSearch, when the timer runs it with such a query, empties the
   results, sets the total to 0, hides the results panel, leaves isLoading
   false and sends no request. *)
C22_ConsultaCorta ==
  /\ [](\A q \in Terminos : Len(q) < 2 =>
          /\ searchSongsFetch(q) = {}
          /\ searchSongs(titulos, q) =
               [termino_busqueda |-> q, total_resultados |-> 0, resultados |-> {}])
  /\ [][\A t \in timers : (Len(t.args) < 2 /\ later(t)) =>
          /\ sb'.searchResults = {} /\ sb'.totalResults = 0
          /\ ~sb'.showResults /\ ~sb'.isLoading
          /\ peticiones' = peticiones]_vars

(* performSearch ran with a while the request of ab was in flight *)
C22_Witness ==
  /\ emitida = <<"a">> /\ ejecutadas # <<>> /\ timers = {}
  /\ BagIn(<<"a", "b">>, peticiones)
  /\ sb.searchResults = {} /\ sb.totalResults = 0
  /\ ~sb.showResults /\ ~sb.isLoading

(* C27: a response, or a failure, of the request of a query that is not the
   one performSearch ran with last (a later query was issued, or the input
   was cleared, since) changes neither the results SearchBar shows nor
   whether the results panel is open. *)
C27_SoloUltimaConsulta ==
  [][\A q \in BagToSet(peticiones) :
       (q # emitida /\ (searchOk(q) \/ searchError(q))) =>
         /\ sb'.searchResults = sb.searchResults
         /\ sb'.showResults = sb.showResults]_vars

(* C23: a login or a registration that fails leaves the stored tokens, the
   user of the auth context and its isAuthenticated flag as they were before
   the attempt, and leaves error at the message of the failure and loading
   false. *)
C23_FalloSoloErrorYLoading ==
  [][(LoginError \/ RegisterError) =>
       /\ almacen' = almacen
       /\ contexto'.user = contexto.user
       /\ contexto'.isAuthenticated = contexto.isAuthenticated
       /\ contexto'.error \in {ErrorLogin, ErrorRegistro}
       /\ ~contexto'.loading]_vars

(* A login failed while a user was logged in with both tokens stored *)
C23_Witness ==
  /\ contexto = [user |-> Usuario, isAuthenticated |-> TRUE, loading |-> FALSE,
                 error |-> ErrorLogin]
  /\ almacen.access_token # NULL /\ almacen.refresh_token # NULL

(* C24: a like toggle on a song leaves the reposts_count and the play count
   of the song, the three counters of every other song, and the number of
   copies of every interaction row other than the like row of the caller on
   the song as they were; a repost toggle does the same with likes_count in
   the place of reposts_count. *)
C24_ToggleSoloLoSuyo ==
  [][\A p \in ParamsCancion : Toggle(p) =>
       /\ DOMAIN canciones' = DOMAIN canciones
       /\ \A c \in DOMAIN canciones :
            \A campo \in {"likes_count", "reposts_count", "reproducciones"} :
              (c # p.cancion_id \/ campo # Contador(p.tipo)) =>
                canciones'[c][campo] = canciones[c][campo]
       /\ \A r \in (BagToSet(interacciones) \cup BagToSet(interacciones')) \ {Fila(p)} :
            CopiesIn(r, interacciones') = CopiesIn(r, interacciones)]_vars

(* Song 1 has been played and has a repost of user 2 when user 1 likes it *)
C24_Witness ==
  /\ canciones[1] = [likes_count |-> 1, reposts_count |-> 1, reproducciones |-> 1]
  /\ BagIn(Fila(Params("like", 1, NULL, NULL, 1)), interacciones)
  /\ BagIn(Fila(Params("repost", 1, NULL, NULL, 2)), interacciones)
  /\ ultima = Respuesta(200, TRUE)

(* C25: in every reachable state every interaction row that names a song or
   a playlist names one that exists, and every row of playlist_canciones
   names a song and a playlist that exist: the step that deletes a song or a
   playlist removes its interaction rows and its membership rows. *)
C25_SinReferenciasColgantes ==
  /\ \A r \in BagToSet(interacciones) :
       /\ r.cancion_id # NULL => r.cancion_id \in DOMAIN canciones
       /\ r.playlist_id # NULL => r.playlist_id \in playlists
  /\ \A r \in miembros :
       /\ r.cancion_id \in DOMAIN temas /\ r.cancion_id \in DOMAIN canciones
       /\ r.playlist_id \in DOMAIN listas /\ r.playlist_id \in playlists

(* Song 1 was deleted, after a toggle on it answered, while song 2 is liked
   and in playlist 1; then a toggle on song 1 answered 404 *)
C25_Witness ==
  /\ 1 \notin DOMAIN canciones /\ 1 \notin DOMAIN temas
  /\ \E r \in BagToSet(interacciones) : r.cancion_id = 2
  /\ \E r \in miembros : r.cancion_id = 2 /\ r.playlist_id = 1
  /\ ultima = Respuesta(404, FALSE)

(* C26: in every reachable state in which no login, register, logout,
   refresh or auth check is in progress, the isAuthenticated flag of the auth
   context is true exactly when an access token is in local storage. *)
C26_AutenticadoSiiToken ==
  AuthEnReposo => (contexto.isAuthenticated <=> almacen.access_token # NULL)

(* C28: in PlaylistView, after every toggle of a like or a repost of the
   track that the server answered with status 200, the count the page shows
   for the track is the count it tracks in trackCounts, also when that count
   is zero. *)
C28_MostradoIgualSeguido ==
  [][\A m \in BagToSet(red) : (m.resp.status = 200 /\ PVRecibe(m)) =>
       FalsyOr(pv'.trackCounts[CampoCuenta(m.tipo)], pv'.track[CampoCuenta(m.tipo)])
         = pv'.trackCounts[CampoCuenta(m.tipo)]]_vars

(* The calls of the AudioCard that have not been answered to it *)
CardEnVuelo == Copias(red, {m \in BagToSet(red) : m.origen = "card"})

(* C29: an AudioCard has at most one like or repost call outstanding:
   loading is true exactly while its one call is outstanding, so it is false
   again after every call, answered with 200 or not, and a click made while
   loading is true sends nothing and changes nothing. *)
C29_UnaLlamadaPorCard ==
  /\ [](/\ CardEnVuelo <= 1
        /\ (card.loading <=> (CardEnVuelo = 1)))
  /\ [][\A t \in {"like", "repost"} : (card.loading /\ CardClick(t)) =>
          UNCHANGED <<card, red, dbvars>>]_vars

(* The like of the card was answered and loading went back to false; its
   repost call is now outstanding *)
C29_Witness ==
  /\ card.isLiked /\ card.likes = 1 /\ card.loading
  /\ CardEnVuelo = 1
  /\ \E m \in BagToSet(red) : m.origen = "card" /\ m.tipo = "repost"

====
